---------------------------- MODULE Spec2Model ----------------------------
(***************************************************************************)
(* Claim-audit orchestration of the medical-billing back office            *)
(* (src/routes/audit_routes.py): the provider catalog, the request and     *)
(* response adapters, the claim formatter, the risk scorer, the mock       *)
(* responder and process_audit with its single fallback hop.               *)
(*                                                                         *)
(* Python values are modelled as tagged records [t |-> tag, v |-> payload] *)
(* and Python dicts as TLA+ functions whose DOMAIN is the dict's key set.  *)
(* A text is a sequence of tokens; a token is a record [k, s, n].          *)
(***************************************************************************)
EXTENDS Integers, Sequences, FiniteSets, TLC

(***************************************************************************)
(* Python values                                                           *)
(***************************************************************************)
None == "<None>"

PStr(s)   == [t |-> "str",   v |-> s]
PNum(n)   == [t |-> "num",   v |-> n]
PNone     == [t |-> "none",  v |-> 0]
PList(l)  == [t |-> "list",  v |-> l]
PDict(d)  == [t |-> "dict",  v |-> d]
PBytes    == [t |-> "bytes", v |-> 0]
PAmt(c)   == [t |-> "amt",   v |-> c]     \* a float or Decimal amount, in cents
PHuge     == [t |-> "huge",  v |-> 0]     \* an int too large for float()

\* dict.get(key, default)
Get(d, key, default) == IF key \in DOMAIN d THEN d[key] ELSE default

\* bool(value)
PyTruthy(x) ==
    CASE x.t = "str"   -> x.v # ""
      [] x.t = "num"   -> x.v # 0
      [] x.t = "amt"   -> x.v # 0
      [] x.t = "none"  -> FALSE
      [] x.t = "list"  -> Len(x.v) > 0
      [] x.t = "text"  -> Len(x.v) > 0
      [] x.t = "dict"  -> DOMAIN x.v # {}
      [] OTHER         -> TRUE

\* The outcome of evaluating an expression: a value, or an exception raised.
\* str(e) of an exception is the exception record itself; marks are the
\* substrings of str(e) that the orchestrator searches for.
Exc(cls) == [cls |-> cls, marks |-> {}]
Ok(text) == [raised |-> FALSE, text |-> text, err |-> Exc("none")]
Raise(e) == [raised |-> TRUE, text |-> <<>>, err |-> e]

(***************************************************************************)
(* Texts                                                                   *)
(***************************************************************************)
W(s)        == [k |-> "w",        s |-> s,  n |-> 0]   \* a literal piece of text
IntTok(n)   == [k |-> "int",      s |-> "", n |-> n]   \* str(int)
FloatTok(c) == [k |-> "float",    s |-> "", n |-> c]   \* str(float), c in cents
Money(c)    == [k |-> "money",    s |-> "", n |-> c]   \* f"{x:.2f}", c in cents
DateTok(s)  == [k |-> "datetime", s |-> s,  n |-> 0]   \* str(datetime) of ISO text s
NL          == W("\n")

\* str(value) as it appears inside an f-string (scalars).
Str(x) ==
    CASE x.t = "str"   -> IF x.v = "" THEN <<>> ELSE <<W(x.v)>>
      [] x.t = "num"   -> <<IntTok(x.v)>>
      [] x.t = "amt"   -> <<FloatTok(x.v)>>
      [] x.t = "huge"  -> <<W("10**400")>>
      [] x.t = "none"  -> <<W("None")>>
      [] x.t = "bytes" -> <<W("b'\\x00'")>>
      [] x.t = "date"  -> <<DateTok(x.v)>>
      [] OTHER         -> <<W("<container>")>>

\* Strings that float() and datetime.fromisoformat() accept, among those the
\* claim inputs below carry.
NumericStrings == ("125.00" :> 12500)
IsoDates == {"2024-01-15"}

\* float(x): [ok, cents, err]
ToFloat(x) ==
    CASE x.t = "amt"  -> [ok |-> TRUE, cents |-> x.v, err |-> "none"]
      [] x.t = "num"  -> [ok |-> TRUE, cents |-> x.v * 100, err |-> "none"]
      [] x.t = "str"  -> IF x.v \in DOMAIN NumericStrings
                         THEN [ok |-> TRUE, cents |-> NumericStrings[x.v], err |-> "none"]
                         ELSE [ok |-> FALSE, cents |-> 0, err |-> "ValueError"]
      [] x.t = "huge" -> [ok |-> FALSE, cents |-> 0, err |-> "OverflowError"]
      [] x.t = "bytes" -> [ok |-> FALSE, cents |-> 0, err |-> "ValueError"]
      [] OTHER        -> [ok |-> FALSE, cents |-> 0, err |-> "TypeError"]

(***************************************************************************)
(* json.dumps / json.loads                                                 *)
(***************************************************************************)
\* Key order of the dicts the persistence layer hands over (insertion order).
ClaimKeys == <<"claim_id", "claim_date", "status", "total_charge",
               "insurance_paid", "patient_paid", "patient_name", "patient_id",
               "provider_name", "provider_id", "blob", "items">>
ItemKeys  == <<"cpt_code", "description", "charge_amount">>
KeysOf(d) == IF "cpt_code" \in DOMAIN d \/ "charge_amount" \in DOMAIN d
                \/ "description" \in DOMAIN d
             THEN ItemKeys ELSE ClaimKeys

RECURSIVE Serializable(_)
\* Whether json.dumps(x, cls=CustomJSONEncoder) returns (dates and Decimals
\* are encoded by CustomJSONEncoder.default; bytes make it raise TypeError).
Serializable(x) ==
    CASE x.t = "bytes" -> FALSE
      [] x.t = "list"  -> \A i \in 1..Len(x.v) : Serializable(x.v[i])
      [] x.t = "dict"  -> \A key \in DOMAIN x.v : Serializable(x.v[key])
      [] OTHER         -> TRUE

RECURSIVE JsonDumps(_)
RECURSIVE JsonDumpsList(_, _)
RECURSIVE JsonDumpsDict(_, _, _)
JsonDumpsList(l, i) ==
    IF i > Len(l) THEN <<>>
    ELSE JsonDumps(l[i]) \o (IF i < Len(l) THEN <<W(",")>> ELSE <<>>)
         \o JsonDumpsList(l, i + 1)
JsonDumpsDict(d, keys, i) ==
    IF i > Len(keys) THEN <<>>
    ELSE (IF keys[i] \in DOMAIN d
          THEN <<W(keys[i]), W(":")>> \o JsonDumps(d[keys[i]]) \o <<W(",")>>
          ELSE <<>>)
         \o JsonDumpsDict(d, keys, i + 1)
\* json.dumps(x, cls=CustomJSONEncoder) of a serializable value, as tokens.
JsonDumps(x) ==
    CASE x.t = "str"   -> <<W("\""), W(x.v), W("\"")>>
      [] x.t = "num"   -> <<IntTok(x.v)>>
      [] x.t = "amt"   -> <<FloatTok(x.v)>>
      [] x.t = "huge"  -> <<W("10**400")>>
      [] x.t = "none"  -> <<W("null")>>
      [] x.t = "list"  -> <<W("[")>> \o JsonDumpsList(x.v, 1) \o <<W("]")>>
      [] x.t = "dict"  -> <<W("{")>> \o JsonDumpsDict(x.v, KeysOf(x.v), 1) \o <<W("}")>>
      [] OTHER         -> <<W("?")>>

(***************************************************************************)
(* Claim inputs                                                            *)
(***************************************************************************)
\* A Python str handed over as the claim: its text.
PText(tokens) == [t |-> "text", v |-> tokens]

MaxItems == 2

Item99213 == PDict([cpt_code |-> PStr("99213"), description |-> PStr("Office visit"),
                    charge_amount |-> PAmt(12500)])
Item80053 == PDict([cpt_code |-> PStr("80053"),
                    description |-> PStr("Duplicate metabolic panel"),
                    charge_amount |-> PAmt(8000)])
ItemPool == {Item99213, Item80053}

ItemSeqs == UNION {[1..n -> ItemPool] : n \in 0..MaxItems}

\* A claim row with its line items, as audit_claim assembles it.
ClaimRecord(id, status, total, items) ==
    PDict([claim_id |-> PNum(id), claim_date |-> PStr("2024-01-15"),
           status |-> PStr(status), total_charge |-> PAmt(total),
           insurance_paid |-> PAmt(0), patient_paid |-> PAmt(0),
           patient_name |-> PStr("Ann Lee"), patient_id |-> PNum(3),
           provider_name |-> PStr("Dr. Roe"), provider_id |-> PNum(4),
           items |-> PList(items)])

WellFormedClaims == {ClaimRecord(9, "Submitted", 125000000, items) : items \in ItemSeqs}

\* Records with missing or malformed fields.
EmptyClaim     == PDict(<<>>)
NoAmountsClaim == PDict([claim_id |-> PNum(7), claim_date |-> PNone,
                         status |-> PStr("Denied"), total_charge |-> PStr("n/a"),
                         insurance_paid |-> PNone, patient_paid |-> PStr("125.00")])
ItemsNoneClaim == PDict([claim_id |-> PNum(5), status |-> PStr("Pending"),
                         items |-> PNone])
BadItemClaim   == PDict([claim_id |-> PNum(6), status |-> PStr("Paid"),
                         items |-> PList(<<Item99213, PStr("x")>>)])
HugeClaim      == PDict([claim_id |-> PNum(8), status |-> PStr("Paid"),
                         total_charge |-> PHuge])
\* Malformed and not JSON-serializable (a bytes column).
BlobClaim      == PDict([claim_id |-> PNum(2), status |-> PStr("Partial"),
                         blob |-> PBytes, items |-> PNone])

MalformedClaims == {EmptyClaim, NoAmountsClaim, ItemsNoneClaim, BadItemClaim,
                    HugeClaim, BlobClaim}

\* The values json.loads can return for the str inputs below.
JsonValues == WellFormedClaims \cup {PList(<<PNum(1), PNum(2)>>)}

RawText == <<W("patient billed twice for the same visit")>>

TextClaims == {PText(JsonDumps(v)) : v \in JsonValues} \cup {PText(RawText)}

\* json.loads(text): [ok, value]; ok = FALSE stands for JSONDecodeError.
JsonLoads(tokens) ==
    IF \E v \in JsonValues : JsonDumps(v) = tokens
    THEN [ok |-> TRUE, value |-> CHOOSE v \in JsonValues : JsonDumps(v) = tokens]
    ELSE [ok |-> FALSE, value |-> PNone]

(***************************************************************************)
(* Claim Formatter                                                         *)
(***************************************************************************)
\* One of the three "Format currency values" blocks.
AmountLine(f, d, key, label) ==
    IF f.ok THEN Ok(<<W(label), Money(f.cents), NL>>)
    ELSE IF f.err \in {"ValueError", "TypeError"}
    THEN Ok(<<W(label)>> \o Str(Get(d, key, PStr("N/A"))) \o <<NL>>)
    ELSE Raise(Exc(f.err))

FormatAmount(d, key, label) == AmountLine(ToFloat(Get(d, key, PNum(0))), d, key, label)

\* The body of "for item in items".
ItemCharge(f, head, item) ==
    IF f.ok THEN Ok(head \o <<Money(f.cents), NL>>)
    ELSE IF f.err \in {"ValueError", "TypeError"}
    THEN Ok(head \o Str(Get(item.v, "charge_amount", PStr("N/A"))) \o <<NL>>)
    ELSE Raise(Exc(f.err))

ItemLine(item) ==
    IF item.t # "dict" THEN Raise(Exc("AttributeError"))
    ELSE ItemCharge(ToFloat(Get(item.v, "charge_amount", PNum(0))),
                    <<W("- CPT Code: ")>> \o Str(Get(item.v, "cpt_code", PStr("N/A")))
                    \o <<W(", Description: ")>>
                    \o Str(Get(item.v, "description", PStr("N/A")))
                    \o <<W(", Charge: $")>>,
                    item)

\* Two outcomes in sequence: the first exception wins.
Then(a, b) == IF a.raised THEN a ELSE IF b.raised THEN b ELSE Ok(a.text \o b.text)

\* A loop that keeps the line of one item only.
ItemLines_OneOnly(items, i) ==
    IF i > Len(items) THEN Ok(<<>>) ELSE ItemLine(items[i])

RECURSIVE ItemLines(_, _)
ItemLines(items, i) ==
    IF i > Len(items) THEN Ok(<<>>)
    ELSE Then(ItemLine(items[i]), ItemLines(items, i + 1))

\* "for item in items" over whatever claim_dict.get('items', []) returned.
FormatItems(items) ==
    CASE items.t = "list" -> ItemLines(items.v, 1)
      [] items.t = "str"  -> IF items.v = "" THEN Ok(<<>>) ELSE Raise(Exc("AttributeError"))
      [] items.t = "dict" -> IF DOMAIN items.v = {} THEN Ok(<<>>)
                             ELSE Raise(Exc("AttributeError"))
      [] items.t = "bytes" -> Raise(Exc("AttributeError"))
      [] OTHER            -> Raise(Exc("TypeError"))

\* "Format dates properly".
ParseDate(raw) ==
    IF raw.t = "str" /\ raw.v \in IsoDates THEN [t |-> "date", v |-> raw.v] ELSE raw

DateLine(claim_date) ==
    IF PyTruthy(claim_date)
    THEN <<W("Claim Date: ")>> \o Str(claim_date) \o <<NL>>
    ELSE <<W("Claim Date: N/A"), NL>>

ClaimDateLine(d) == DateLine(ParseDate(Get(d, "claim_date", PNone)))

\* The try block once claim_dict is bound.
\* Lines 210-223.
ClaimHead(d) ==
    <<W("Claim ID: ")>> \o Str(Get(d, "claim_id", PNone)) \o <<NL>>
    \o ClaimDateLine(d)
    \o <<W("Claim Status: ")>> \o Str(Get(d, "status", PNone)) \o <<NL>>

\* Lines 244-255.
ClaimParties(d) ==
    <<NL, W("Patient: ")>> \o Str(Get(d, "patient_name", PStr("N/A")))
    \o <<W(" (ID: ")>> \o Str(Get(d, "patient_id", PStr("N/A")))
    \o <<W(")"), NL>>
    \o <<W("Provider: ")>> \o Str(Get(d, "provider_name", PStr("N/A")))
    \o <<W(" (ID: ")>> \o Str(Get(d, "provider_id", PStr("N/A")))
    \o <<W(")"), NL, NL>>
    \o <<W("Services Billed:"), NL>>

FormatClaimDict(claim_dict) ==
    IF claim_dict.t # "dict" THEN Raise(Exc("AttributeError"))
    ELSE Then(Ok(ClaimHead(claim_dict.v)),
         Then(FormatAmount(claim_dict.v, "total_charge", "Total Charge: $"),
         Then(FormatAmount(claim_dict.v, "insurance_paid", "Insurance Paid: $"),
         Then(FormatAmount(claim_dict.v, "patient_paid", "Patient Paid: $"),
         Then(Ok(ClaimParties(claim_dict.v)),
              FormatItems(Get(claim_dict.v, "items", PList(<<>>))))))))

\* The "except Exception as e" block: the error-annotated text with the raw
\* input; json.dumps raises TypeError on a value CustomJSONEncoder cannot
\* encode, and that exception leaves the function.
ErrorHead(e) ==
    <<W("Error formatting claim data: "), W(e.cls), NL, W("Raw claim data: ")>>

FormatFallback(claim, e) ==
    IF claim.t = "dict"
    THEN IF Serializable(claim) THEN Ok(ErrorHead(e) \o JsonDumps(claim))
         ELSE Raise(Exc("TypeError"))
    ELSE IF claim.t = "text" THEN Ok(ErrorHead(e) \o claim.v)
    ELSE Ok(ErrorHead(e) \o Str(claim))

\* The outer try/except around the formatting of claim_dict.
FormatOrFallback(claim, r) == IF r.raised THEN FormatFallback(claim, r.err) ELSE r

\* Lines 199-207 once json.loads has answered.
FormatLoaded(claim, loaded) ==
    IF ~loaded.ok THEN Ok(<<W("Raw claim data:"), NL>> \o claim.v)
    ELSE FormatOrFallback(claim, FormatClaimDict(loaded.value))

format_claim_data_for_llm(claim) ==
    FormatLoaded(claim, IF claim.t = "text" THEN JsonLoads(claim.v)
                        ELSE [ok |-> TRUE, value |-> claim])

(***************************************************************************)
(* Provider catalog                                                        *)
(***************************************************************************)
Sonnet4  == "us.anthropic.claude-sonnet-4-20250514-v1:0"
Sonnet37 == "us.anthropic.claude-3-7-sonnet-20250109-v1:0"
Haiku3   == "anthropic.claude-3-haiku-20240307-v1:0"
Scout    == "us.meta.llama4-scout-17b-instruct-v1:0"
Maverick == "us.meta.llama4-maverick-17b-instruct-v1:0"

SUPPORTED_MODELS ==
    (Sonnet4  :> [name |-> "Claude Sonnet 4", provider |-> "anthropic",
                  type |-> "claude", max_tokens |-> 4000, temperature |-> "0.7"])
 @@ (Sonnet37 :> [name |-> "Claude 3.7 Sonnet", provider |-> "anthropic",
                  type |-> "claude", max_tokens |-> 4000, temperature |-> "0.7"])
 @@ (Haiku3   :> [name |-> "Claude 3 Haiku", provider |-> "anthropic",
                  type |-> "claude", max_tokens |-> 3000, temperature |-> "0.7"])
 @@ (Scout    :> [name |-> "Llama 4 Scout 17B Instruct", provider |-> "meta",
                  type |-> "llama", max_tokens |-> 2048, temperature |-> "0.7"])
 @@ (Maverick :> [name |-> "Llama 4 Maverick 17B Instruct", provider |-> "meta",
                  type |-> "llama", max_tokens |-> 2048, temperature |-> "0.7"])

DEFAULT_MODEL == Sonnet4

\* A fallback hop that targets the default provider instead.
FALLBACK_MODEL_IsDefault == Sonnet4

\* A fallback hop that targets the regional profile of the same provider.
FALLBACK_MODEL_Regional == "us.anthropic.claude-3-haiku-20240307-v1:0"

\* The literal of process_audit's fallback hop.
FALLBACK_MODEL == Haiku3

VARIABLES
    environ,               \* os.environ: the value of AUDIT_MODEL, or None
    sklearn,               \* whether scikit-learn can be imported in this process
    pc,                    \* position of the process_audit call in flight
    claim_data,            \* argument claim_data
    model_id,              \* argument model_id
    model_config,          \* local model_config
    actual_model_id,       \* local actual_model_id
    formatted_claim_data,  \* local formatted_claim_data
    audit_prompt,          \* local audit_prompt
    response,              \* local response (what invoke_model returned)
    audit_response,        \* local audit_response
    invoke_error,          \* the exception bound by "except ... as invoke_error"
    exc,                   \* the exception bound by the outer "except ... as e"
    invocations,           \* the Inference Client's log of invoke_model calls
    result,                \* the value process_audit returned
    probe,                 \* the last call of a module function made from
                           \* outside process_audit: its arguments and value
    database,              \* claims.fraud_score of the stored claims, by claim_id
    request,               \* the audit_claim request in flight, or its response
    suspended,             \* the frame of a second process_audit call, which
                           \* is not the one taking steps
    overlapped,            \* whether the call taking steps has been in flight
                           \* together with the other call
    registry,              \* the module globals SUPPORTED_MODELS and
                           \* DEFAULT_MODEL as they are now
    cancelled,             \* whether the task running the call was asked to
                           \* cancel
    store                  \* the shared SQLite connection of config/db.py and
                           \* the claims and payments tables behind it

\* What lies beyond the module functions: the store, the endpoint and the
\* other call.
\* The state of the event loop's task and of the other routes.
later == <<cancelled, store>>

beyond == <<database, request, suspended, overlapped, later>>

\* The state outside the frame of the process_audit call in flight.
elsewhere == <<probe, beyond, registry>>

vars == <<environ, sklearn, pc, claim_data, model_id, model_config, actual_model_id,
          formatted_claim_data, audit_prompt, response, audit_response,
          invoke_error, exc, invocations, result, elsewhere>>

\* Truthiness of an Optional[str].
Truthy(s) == s # None /\ s # ""

\* os.getenv(name, default) for the one variable the module reads.
getenv(default) == IF environ = None THEN default ELSE environ

\* Lines 125-127: the catalog entry, copied and tagged with its key.
ConfigOf(mid) == [model_id |-> mid] @@ SUPPORTED_MODELS[mid]

\* Lines 121-123.
OrDefaultModel(mid) == IF mid \notin DOMAIN SUPPORTED_MODELS THEN DEFAULT_MODEL ELSE mid

\* A lookup that consults AUDIT_MODEL for unknown identifiers as well.
get_model_config_EnvForUnknown(mid) ==
    ConfigOf(OrDefaultModel(IF mid \notin DOMAIN SUPPORTED_MODELS
                            THEN getenv(DEFAULT_MODEL) ELSE mid))

get_model_config(mid) ==
    ConfigOf(OrDefaultModel(IF ~Truthy(mid) THEN getenv(DEFAULT_MODEL) ELSE mid))

\* The key get_model_config(mid) looks up (lines 118-123).
LookupKey(mid) == OrDefaultModel(IF ~Truthy(mid) THEN getenv(DEFAULT_MODEL) ELSE mid)

\* The module globals as lines 26-65 bind them when the process starts.
\* get_model_config above reads these values; registry is what the names are
\* bound to after the calls made so far.
AtStart == [SUPPORTED_MODELS |-> SUPPORTED_MODELS, DEFAULT_MODEL |-> DEFAULT_MODEL]

\* A lookup that hands out the catalog's own entry.
DictCopy_Alias(key) == [entry |-> key, own |-> FALSE]

\* Line 125: SUPPORTED_MODELS[model_id].copy() is a dict of its own (own
\* = TRUE), not the entry of the catalog.
DictCopy(key) == [entry |-> key, own |-> TRUE]

\* The globals after config[field] = value for the dict that ref stands for.
SetItem(reg, ref, field, value) ==
    IF ref.own THEN reg
    ELSE [reg EXCEPT !.SUPPORTED_MODELS[ref.entry] = (field :> value) @@ @]

\* Lines 125-126: the globals after get_model_config(mid).
AfterLookup(reg, mid) ==
    SetItem(reg, DictCopy(LookupKey(mid)), "model_id", LookupKey(mid))

(***************************************************************************)
(* Model Registry adapters                                                 *)
(***************************************************************************)
\* An encoder whose default is the raw-prompt dialect.
create_request_body_RawDefault(prompt, config) ==
    IF config.type = "claude"
    THEN [anthropic_version |-> "bedrock-2023-05-31",
          max_tokens |-> config.max_tokens,
          temperature |-> config.temperature,
          messages |-> <<[role |-> "user", content |-> prompt]>>]
    ELSE IF config.type = "mistral"
    THEN [prompt |-> prompt, max_tokens |-> config.max_tokens,
          temperature |-> config.temperature, top_p |-> "0.9", top_k |-> 50]
    ELSE [prompt |-> prompt, max_gen_len |-> config.max_tokens,
          temperature |-> config.temperature, top_p |-> "0.9"]

create_request_body(prompt, config) ==
    LET model_type == config.type
        messages == [anthropic_version |-> "bedrock-2023-05-31",
                     max_tokens |-> config.max_tokens,
                     temperature |-> config.temperature,
                     messages |-> <<[role |-> "user", content |-> prompt]>>]
    IN  CASE model_type = "claude"  -> messages
          [] model_type = "llama"   -> [prompt |-> prompt,
                                        max_gen_len |-> config.max_tokens,
                                        temperature |-> config.temperature,
                                        top_p |-> "0.9"]
          [] model_type = "mistral" -> [prompt |-> prompt,
                                        max_tokens |-> config.max_tokens,
                                        temperature |-> config.temperature,
                                        top_p |-> "0.9", top_k |-> 50]
          [] OTHER                  -> messages

EmptyStr == PText(<<>>)

\* x[0] for a JSON value x: [ok, value]; ok = FALSE stands for the
\* IndexError, KeyError or TypeError the subscript raises.
First(x) ==
    CASE x.t = "list" -> IF Len(x.v) > 0 THEN [ok |-> TRUE, value |-> x.v[1]]
                         ELSE [ok |-> FALSE, value |-> PNone]
      [] x.t = "text" -> IF Len(x.v) > 0 THEN [ok |-> TRUE, value |-> PText(<<x.v[1]>>)]
                         ELSE [ok |-> FALSE, value |-> PNone]
      [] OTHER        -> [ok |-> FALSE, value |-> PNone]

\* response_body.get("content", [{"text": ""}])[0].get("text", "")
ParseClaude(response_body) ==
    IF response_body.t # "dict" THEN EmptyStr
    ELSE LET content == Get(response_body.v, "content",
                            PList(<<PDict([text |-> EmptyStr])>>))
             block == First(content)
         IN  IF ~block.ok THEN EmptyStr
             ELSE IF block.value.t # "dict" THEN EmptyStr
             ELSE Get(block.value.v, "text", EmptyStr)

parse_model_response(response_body, config) ==
    LET model_type == config.type
    IN  CASE model_type = "claude"  -> ParseClaude(response_body)
          [] model_type = "llama"   ->
                IF response_body.t # "dict" THEN EmptyStr
                ELSE Get(response_body.v, "generation", EmptyStr)
          [] model_type = "mistral" ->
                IF response_body.t # "dict" THEN EmptyStr
                ELSE LET outputs == Get(response_body.v, "outputs", PList(<<>>))
                     IN  IF ~PyTruthy(outputs) THEN EmptyStr
                         ELSE IF ~First(outputs).ok THEN EmptyStr
                         ELSE IF First(outputs).value.t # "dict" THEN EmptyStr
                         ELSE Get(First(outputs).value.v, "text", EmptyStr)
          [] OTHER                  -> ParseClaude(response_body)

\* The branch of create_request_body that serves a shape tag (lines 134,
\* 143, 150; line 158 is the else).
RequestBranch(model_type) ==
    CASE model_type = "claude"  -> "claude"
      [] model_type = "llama"   -> "llama"
      [] model_type = "mistral" -> "mistral"
      [] OTHER                  -> "else"

\* The branch of parse_model_response that serves a shape tag (lines 175,
\* 177, 179; line 184 is the else).
ResponseBranch(model_type) ==
    CASE model_type = "claude"  -> "claude"
      [] model_type = "llama"   -> "llama"
      [] model_type = "mistral" -> "mistral"
      [] OTHER                  -> "else"

(***************************************************************************)
(* Risk Scorer                                                             *)
(***************************************************************************)
\* str.lower() of the literal pieces of text that carry upper-case letters.
LowerTable ==
       ("Claim ID: " :> "claim id: ") @@ ("Claim Date: " :> "claim date: ")
    @@ ("Claim Date: N/A" :> "claim date: n/a")
    @@ ("Claim Status: " :> "claim status: ")
    @@ ("Total Charge: $" :> "total charge: $")
    @@ ("Insurance Paid: $" :> "insurance paid: $")
    @@ ("Patient Paid: $" :> "patient paid: $")
    @@ ("Patient: " :> "patient: ") @@ (" (ID: " :> " (id: ")
    @@ ("Provider: " :> "provider: ")
    @@ ("Services Billed:" :> "services billed:")
    @@ ("- CPT Code: " :> "- cpt code: ")
    @@ (", Description: " :> ", description: ")
    @@ (", Charge: $" :> ", charge: $")
    @@ ("Raw claim data:" :> "raw claim data:")
    @@ ("Raw claim data: " :> "raw claim data: ")
    @@ ("Error formatting claim data: " :> "error formatting claim data: ")
    @@ ("Submitted" :> "submitted") @@ ("Denied" :> "denied")
    @@ ("Pending" :> "pending") @@ ("Paid" :> "paid") @@ ("Partial" :> "partial")
    @@ ("Ann Lee" :> "ann lee") @@ ("Dr. Roe" :> "dr. roe")
    @@ ("Office visit" :> "office visit")
    @@ ("Duplicate metabolic panel" :> "duplicate metabolic panel")
    @@ ("N/A" :> "n/a") @@ ("None" :> "none")
    @@ ("AttributeError" :> "attributeerror") @@ ("TypeError" :> "typeerror")
    @@ ("OverflowError" :> "overflowerror") @@ ("ValueError" :> "valueerror")
    @@ ("No issues found in this claim." :> "no issues found in this claim.")
    @@ ("Possible UPCODING and Duplicate billing: fraud suspected."
        :> "possible upcoding and duplicate billing: fraud suspected.")
    @@ ("Duplicate lines: duplicate charge, FRAUD or fraudulent duplicates."
        :> "duplicate lines: duplicate charge, fraud or fraudulent duplicates.")
    @@ ("The audit system using " :> "the audit system using ")
    @@ (" could not generate an analysis at this time. Please try again later or contact system administration."
        :> " could not generate an analysis at this time. please try again later or contact system administration.")
    @@ ("Claude Sonnet 4" :> "claude sonnet 4")
    @@ ("Claude 3.7 Sonnet" :> "claude 3.7 sonnet")
    @@ ("Claude 3 Haiku" :> "claude 3 haiku")
    @@ ("Llama 4 Scout 17B Instruct" :> "llama 4 scout 17b instruct")
    @@ ("Llama 4 Maverick 17B Instruct" :> "llama 4 maverick 17b instruct")

LowerStr(s) == IF s \in DOMAIN LowerTable THEN LowerTable[s] ELSE s

\* text.lower()
Lower(text) == [i \in 1..Len(text) |-> [text[i] EXCEPT !.s = LowerStr(@)]]

\* The words (runs of two or more word characters) of a lower-case piece of
\* text; a piece that is not listed has none.
WordTable ==
       ("claim id: " :> <<"claim", "id">>) @@ ("claim date: " :> <<"claim", "date">>)
    @@ ("claim date: n/a" :> <<"claim", "date">>)
    @@ ("claim status: " :> <<"claim", "status">>)
    @@ ("total charge: $" :> <<"total", "charge">>)
    @@ ("insurance paid: $" :> <<"insurance", "paid">>)
    @@ ("patient paid: $" :> <<"patient", "paid">>)
    @@ ("patient: " :> <<"patient">>) @@ (" (id: " :> <<"id">>)
    @@ ("provider: " :> <<"provider">>)
    @@ ("services billed:" :> <<"services", "billed">>)
    @@ ("- cpt code: " :> <<"cpt", "code">>)
    @@ (", description: " :> <<"description">>)
    @@ (", charge: $" :> <<"charge">>)
    @@ ("raw claim data:" :> <<"raw", "claim", "data">>)
    @@ ("raw claim data: " :> <<"raw", "claim", "data">>)
    @@ ("error formatting claim data: " :> <<"error", "formatting", "claim", "data">>)
    @@ ("submitted" :> <<"submitted">>) @@ ("denied" :> <<"denied">>)
    @@ ("pending" :> <<"pending">>) @@ ("paid" :> <<"paid">>)
    @@ ("partial" :> <<"partial">>)
    @@ ("ann lee" :> <<"ann", "lee">>) @@ ("dr. roe" :> <<"dr", "roe">>)
    @@ ("99213" :> <<"99213">>) @@ ("80053" :> <<"80053">>)
    @@ ("office visit" :> <<"office", "visit">>)
    @@ ("duplicate metabolic panel" :> <<"duplicate", "metabolic", "panel">>)
    @@ ("none" :> <<"none">>) @@ ("null" :> <<"null">>)
    @@ ("125.00" :> <<"125", "00">>) @@ ("2024-01-15" :> <<"2024", "01", "15">>)
    @@ ("10**400" :> <<"10", "400">>)
    @@ ("attributeerror" :> <<"attributeerror">>) @@ ("typeerror" :> <<"typeerror">>)
    @@ ("overflowerror" :> <<"overflowerror">>) @@ ("valueerror" :> <<"valueerror">>)
    @@ ("claim_id" :> <<"claim_id">>) @@ ("claim_date" :> <<"claim_date">>)
    @@ ("status" :> <<"status">>) @@ ("total_charge" :> <<"total_charge">>)
    @@ ("insurance_paid" :> <<"insurance_paid">>)
    @@ ("patient_paid" :> <<"patient_paid">>)
    @@ ("patient_name" :> <<"patient_name">>) @@ ("patient_id" :> <<"patient_id">>)
    @@ ("provider_name" :> <<"provider_name">>)
    @@ ("provider_id" :> <<"provider_id">>) @@ ("items" :> <<"items">>)
    @@ ("cpt_code" :> <<"cpt_code">>) @@ ("description" :> <<"description">>)
    @@ ("charge_amount" :> <<"charge_amount">>)
    @@ ("patient billed twice for the same visit"
        :> <<"patient", "billed", "twice", "for", "the", "same", "visit">>)
    @@ ("no issues found in this claim."
        :> <<"no", "issues", "found", "in", "this", "claim">>)
    @@ ("possible upcoding and duplicate billing: fraud suspected."
        :> <<"possible", "upcoding", "and", "duplicate", "billing", "fraud",
             "suspected">>)
    @@ ("duplicate lines: duplicate charge, fraud or fraudulent duplicates."
        :> <<"duplicate", "lines", "duplicate", "charge", "fraud", "or",
             "fraudulent", "duplicates">>)
    @@ ("mock audit analysis" :> <<"mock", "audit", "analysis">>)
    @@ ("the audit system using " :> <<"the", "audit", "system", "using">>)
    @@ (" could not generate an analysis at this time. please try again later or contact system administration."
        :> <<"could", "not", "generate", "an", "analysis", "at", "this", "time",
             "please", "try", "again", "later", "or", "contact", "system",
             "administration">>)
    @@ ("claude sonnet 4" :> <<"claude", "sonnet">>)
    @@ ("claude 3.7 sonnet" :> <<"claude", "sonnet">>)
    @@ ("claude 3 haiku" :> <<"claude", "haiku">>)
    @@ ("llama 4 scout 17b instruct" :> <<"llama", "scout", "17b", "instruct">>)
    @@ ("llama 4 maverick 17b instruct" :> <<"llama", "maverick", "17b", "instruct">>)

\* A word of the vectorizer's vocabulary: a string, or a run of digits.
Word(s)   == [k |-> "w",   s |-> s,  n |-> 0]
Digits(n) == [k |-> "int", s |-> "", n |-> n]
\* Two digits after a decimal point ("00", "05", "50").
Cents(n)  == IF n >= 10 THEN Digits(n) ELSE [k |-> "0d", s |-> "", n |-> n]

DigitStrings == ("99213" :> 99213) @@ ("80053" :> 80053) @@ ("125" :> 125)
                @@ ("2024" :> 2024) @@ ("15" :> 15) @@ ("10" :> 10) @@ ("400" :> 400)

StrWord(s) == IF s \in DOMAIN DigitStrings THEN Digits(DigitStrings[s])
              ELSE IF s = "00" THEN Cents(0)
              ELSE IF s = "01" THEN Cents(1)
              ELSE Word(s)

WordsOf(listed) == [i \in 1..Len(listed) |-> StrWord(listed[i])]

StrWords(s) == IF s \in DOMAIN WordTable THEN WordsOf(WordTable[s]) ELSE <<>>

\* The words TfidfVectorizer's default tokenizer finds in one token.
TokenWords(tok) ==
    CASE tok.k = "w" -> StrWords(tok.s)
      [] tok.k = "int" -> IF tok.n >= 10 THEN <<Digits(tok.n)>> ELSE <<>>
      [] tok.k = "money" ->
            (IF tok.n \div 100 >= 10 THEN <<Digits(tok.n \div 100)>> ELSE <<>>)
            \o <<Cents(tok.n % 100)>>
      [] tok.k = "float" ->
            (IF tok.n \div 100 >= 10 THEN <<Digits(tok.n \div 100)>> ELSE <<>>)
            \o (IF (tok.n % 100) % 10 = 0 THEN <<>> ELSE <<Cents(tok.n % 100)>>)
      [] tok.k = "datetime" ->
            StrWords(tok.s) \o <<Cents(0), Cents(0), Cents(0)>>
      [] OTHER -> <<>>

RECURSIVE TextWords(_, _)
TextWords(text, i) ==
    IF i > Len(text) THEN <<>> ELSE TokenWords(text[i]) \o TextWords(text, i + 1)

risk_indicators ==
    <<"upcoding", "unbundling", "mismatch", "unusual", "excessive",
      "unnecessary", "duplicate", "no documentation", "inconsistent",
      "fraud", "suspicious", "overutilization", "discrepancy">>

\* Words of the vocabulary that contain an indicator without being it.
Derived == ("suspected" :> {}) @@ ("unusually" :> {"unusual"})
           @@ ("duplicates" :> {"duplicate"}) @@ ("fraudulent" :> {"fraud"})

\* indicator in combined_text, read on the words of the lower-cased text.
Occurs(indicator, words) ==
    IF indicator = "no documentation"
    THEN \E i \in 1..(Len(words) - 1) :
            words[i] = Word("no") /\ words[i + 1] = Word("documentation")
    ELSE \E i \in 1..Len(words) :
            \/ words[i] = Word(indicator)
            \/ /\ words[i].k = "w"
               /\ words[i].s \in DOMAIN Derived
               /\ indicator \in Derived[words[i].s]

high_risk_examples ==
    << <<"multiple", "high", "cost", "procedures", "on", "same", "day",
         "without", "documentation">>,
       <<"billing", "for", "services", "not", "documented", "in", "medical",
         "records">>,
       <<"unusual", "patterns", "of", "billing", "across", "multiple",
         "patients">> >>

ExampleWords(j) == [i \in 1..Len(high_risk_examples[j]) |-> Word(high_risk_examples[j][i])]

Range(f) == {f[i] : i \in DOMAIN f}
Count(w, words) == Cardinality({i \in 1..Len(words) : words[i] = w})

\* The smooth idf ln((1 + n) / (1 + df)) + 1 for n = 4 documents, in thousandths.
Idf(df) == CASE df = 1 -> 1916 [] df = 2 -> 1511 [] df = 3 -> 1223 [] OTHER -> 1000

DocFreq(w, docs) == Cardinality({j \in 1..Len(docs) : w \in Range(docs[j])})

\* The product of the TF-IDF weights of word w in documents a and b.
Weight2(w, a, b, idf) == (Count(w, a) * idf) * (Count(w, b) * idf)

RECURSIVE SumOver(_, _, _, _)
\* The sum of Weight2 over the words of S.
SumOver(S, a, b, docs) ==
    IF S = {} THEN 0
    ELSE SumOver(S \ {CHOOSE x \in S : TRUE}, a, b, docs)
         + Weight2(CHOOSE x \in S : TRUE, a, b, Idf(DocFreq(CHOOSE x \in S : TRUE, docs)))

RECURSIVE IsqrtIn(_, _, _)
IsqrtIn(n, lo, hi) ==
    IF lo >= hi THEN lo
    ELSE IF ((lo + hi + 1) \div 2) * ((lo + hi + 1) \div 2) <= n
    THEN IsqrtIn(n, (lo + hi + 1) \div 2, hi)
    ELSE IsqrtIn(n, lo, ((lo + hi + 1) \div 2) - 1)
Isqrt(n) == IsqrtIn(n, 0, 40000)

Min(a, b) == IF a <= b THEN a ELSE b
Max(a, b) == IF a >= b THEN a ELSE b

\* dot * 100 / r, whichever order of the two operations keeps the width.
Scaled(dot, r) == IF dot <= 20000000 THEN (dot * 100) \div r ELSE (dot \div r) * 100

\* dot / (|a| |b|) in hundred-thousandths, 0 for a zero row.
CosineOf(dot, na, nb) ==
    IF na = 0 \/ nb = 0 THEN 0
    ELSE Min((Scaled(dot, Isqrt(na)) * 1000) \div Isqrt(nb), 100000)

\* cosine_similarity of the TF-IDF rows of a and b, in hundred-thousandths.
Cosine(a, b, docs) ==
    CosineOf(SumOver(Range(a) \cap Range(b), a, b, docs),
             SumOver(Range(a), a, a, docs),
             SumOver(Range(b), b, b, docs))

\* A count that adds one for every place an indicator occurs at.
RiskCounts_EveryOccurrence(words) ==
    Cardinality({at \in (1..Len(risk_indicators)) \X (1..Len(words)) :
                    Occurs(risk_indicators[at[1]], <<words[at[2]]>>)})

\* Line 609: how many of the indicators occur in the text.
RiskCounts(words) ==
    Cardinality({i \in 1..Len(risk_indicators) : Occurs(risk_indicators[i], words)})

\* Line 613: min(risk_counts / max_possible_indicators, 1.0) * 0.5, as a
\* multiple of 1/7800000 (one unit of the 13 indicators is 300000 of them).
BaseScore(risk_counts) ==
    Min(risk_counts * 300000, Len(risk_indicators) * 300000)

\* A mean of the similarities that is not halved.
AvgSimilarity_Unhalved(docs) ==
    (Cosine(docs[4], docs[1], docs) + Cosine(docs[4], docs[2], docs)
     + Cosine(docs[4], docs[3], docs)) * 26

\* Lines 626-637: np.mean(similarities) * 0.5, as a multiple of 1/7800000;
\* docs is all_texts, its last row the combined text.
AvgSimilarity(docs) ==
    (Cosine(docs[4], docs[1], docs) + Cosine(docs[4], docs[2], docs)
     + Cosine(docs[4], docs[3], docs)) * 13

\* Line 646: round(final_score * 100, 2) in hundredths of a point, for
\* final_score a multiple of 1/7800000.
Round2(final_score) == (final_score + 390) \div 780

\* Lines 609-646 on the words of combined_text: the score in hundredths of a
\* point (0 .. 10000 stands for 0.00 .. 100.00).
ScoreWords(words) ==
    Round2(Min(Max(BaseScore(RiskCounts(words))
                   + AvgSimilarity(<<ExampleWords(1), ExampleWords(2),
                                     ExampleWords(3), words>>),
                   0), 7800000))

\* importable = FALSE: "from sklearn ..." raises and the except block
\* returns 0.0.
\* A scorer whose except block answers with the middle of the scale.
calculate_fraud_score_MidOnFailure(claim_text, audit_result, importable) ==
    IF ~importable THEN 5000
    ELSE ScoreWords(TextWords(Lower(claim_text) \o <<W(" ")>> \o Lower(audit_result), 1))

calculate_fraud_score(claim_text, audit_result, importable) ==
    IF ~importable THEN 0
    ELSE ScoreWords(TextWords(Lower(claim_text) \o <<W(" ")>> \o Lower(audit_result), 1))

(***************************************************************************)
(* Mock Responder                                                          *)
(***************************************************************************)
\* requested_model or "default"
OrDefault(mid, default) == IF Truthy(mid) THEN mid ELSE default

RiskBand(score) ==
    IF score < 3000 THEN <<W("LOW RISK"), W("No significant fraud indicators detected.")>>
    ELSE IF score < 7000
    THEN <<W("MODERATE RISK"), W("Some patterns warrant additional review.")>>
    ELSE <<W("HIGH RISK"),
           W("Multiple risk factors identified - requires immediate review.")>>

ScoreTok(score) == [k |-> "score", s |-> "", n |-> score]

MockUnavailable ==
    <<W("Mock audit system temporarily unavailable. Please enable AWS Bedrock model access for full functionality.")>>

\* Lines 498-553: the report.
MockAudit(requested_model, config, fraud_score) ==
    <<W("**MEDICAL BILLING AUDIT REPORT** *Generated by Mock Audit System*"),
      W("Requested Model: "), W(OrDefault(requested_model, "Default")),
      W("Would Use: "), W(config.name), W(config.model_id),
      W("Provider: "), W(config.provider),
      W("Default Available: Claude Sonnet 4"), W(DEFAULT_MODEL),
      W("**1. CODING ACCURACY** ... **5. FRAUD RISK INDICATORS**"),
      W("Risk Score: "), ScoreTok(fraud_score), W("/100")>>
    \o RiskBand(fraud_score)
    \o <<W("**6. RECOMMENDATIONS** ... **SUMMARY** ..."),
         W(config.model_id), W(DEFAULT_MODEL), W(FALLBACK_MODEL)>>

\* Lines 557-572.
MockSuccess(requested_model, formatted, fraud_score, config, mock_audit) ==
    [audit_result |-> mock_audit,
     success |-> TRUE,
     details |->
       [fraud_score |-> fraud_score,
        model_used |-> <<W("MOCK_SYSTEM (would_use: "), W(config.model_id), W(")")>>,
        model_name |-> <<W("Mock System (Target: "), W(config.name), W(")")>>,
        model_provider |-> <<W("mock (target: "), W(config.provider), W(")")>>,
        requested_model |-> <<W(OrDefault(requested_model, "default"))>>,
        target_model |-> <<W(config.model_id)>>,
        prompt_length |-> Len(formatted),
        response_length |-> Len(mock_audit),
        note |-> <<W("Mock response - enable AWS Bedrock for full AI analysis")>>,
        timestamp |-> "now"]]

\* A failure result that reports success.
MockFailure_Success(requested_model, e) ==
    [audit_result |-> MockUnavailable,
     success |-> TRUE,
     details |-> [error |-> e,
                  requested_model |-> <<W(OrDefault(requested_model, "default"))>>,
                  timestamp |-> "now"]]

\* Lines 573-583.
MockFailure(requested_model, e) ==
    [audit_result |-> MockUnavailable,
     success |-> FALSE,
     details |-> [error |-> e,
                  requested_model |-> <<W(OrDefault(requested_model, "default"))>>,
                  timestamp |-> "now"]]

MockScored(requested_model, formatted, fraud_score, config) ==
    MockSuccess(requested_model, formatted, fraud_score, config,
                MockAudit(requested_model, config, fraud_score))

\* What a call of the Mock Responder yields: a returned value, or an
\* exception that leaves it.
Returns(value) == [raised |-> FALSE, value |-> value]
Raises(e)      == [raised |-> TRUE, err |-> e]

\* A Mock Responder without its "except Exception" block.
MockFormatted_Uncaught(requested_model, r) ==
    IF r.raised THEN Raises(r.err)
    ELSE Returns(MockScored(requested_model, r.text,
                    calculate_fraud_score(r.text, <<W("mock audit analysis")>>, sklearn),
                    get_model_config(requested_model)))

\* The try block once the claim is formatted (r is the formatter's outcome);
\* "except Exception as e" turns what it raises into the failure result.
MockFormatted(requested_model, r) ==
    IF r.raised THEN Returns(MockFailure(requested_model, r.err))
    ELSE Returns(MockScored(requested_model, r.text,
                    calculate_fraud_score(r.text, <<W("mock audit analysis")>>, sklearn),
                    get_model_config(requested_model)))

\* Line 488: the globals after the Mock Responder ran; it looks the
\* requested model up once the claim is formatted (r is the formatter's
\* outcome).
AfterMock(reg, requested_model, r) ==
    IF r.raised THEN reg ELSE AfterLookup(reg, requested_model)

generate_mock_audit_response(claim, requested_model) ==
    MockFormatted(requested_model, format_claim_data_for_llm(claim))

(***************************************************************************)
(* Inference Client (external collaborator)                                *)
(***************************************************************************)
\* The errors invoke_model can raise, by the substrings of str(error) that
\* process_audit searches for: a botocore ClientError names its one error
\* code and carries the service's message, which may mention an inference
\* profile; a timeout or a connection error names no code.
ErrorCodes == {"ValidationException", "AccessDeniedException",
               "ResourceNotFoundException"}

InvokeErrors ==
    {[cls |-> "ClientError", marks |-> {code} \cup m] :
        code \in ErrorCodes, m \in SUBSET {"inference profile"}}
    \cup {[cls |-> "ReadTimeoutError", marks |-> {}]}

GoodText  == <<W("No issues found in this claim.")>>
RiskyText == <<W("Possible UPCODING and Duplicate billing: fraud suspected.")>>
BlankText == <<W(" "), NL>>
\* An analysis that names two of the indicators more than once.
RepeatText == <<W("Duplicate lines: duplicate charge, FRAUD or fraudulent duplicates.")>>

ClaudeBody(text) == PDict([content |-> PList(<<PDict([text |-> text])>>)])
LlamaBody(text)  == PDict([generation |-> text])

\* What json.loads(response['body'].read()) yields: the JSON value of the
\* body, or (json_ok = FALSE) an exception, when the body is not JSON or the
\* stream cannot be read to its end.
Payloads ==
    {[json_ok |-> TRUE, value |-> v] :
        v \in {ClaudeBody(PText(GoodText)), ClaudeBody(PText(RiskyText)),
               ClaudeBody(EmptyStr), ClaudeBody(PText(BlankText)),
               ClaudeBody(PNone), ClaudeBody(PList(<<PNum(1)>>)),
               PDict([content |-> PList(<<>>)]),
               LlamaBody(PText(GoodText)), LlamaBody(PNum(7)),
               PDict(<<>>), PList(<<>>)}}
    \cup {[json_ok |-> FALSE, value |-> PNone]}

(***************************************************************************)
(* Audit Orchestrator: process_audit                                       *)
(***************************************************************************)
Unset == [t |-> "unset", v |-> 0]
NoExc == Exc("none")
NoResult == [audit_result |-> <<>>, success |-> FALSE, details |-> <<>>]
NoProbe == [op |-> "none"]
NoRequest == [at |-> "none"]

\* The frame of a call that has not started or has returned.
IdleFrame ==
    [pc |-> "idle", claim_data |-> Unset, model_id |-> None, model_config |-> Unset,
     actual_model_id |-> None, formatted_claim_data |-> <<>>, audit_prompt |-> <<>>,
     response |-> Unset, audit_response |-> <<>>, invoke_error |-> NoExc,
     exc |-> NoExc, invocations |-> <<>>, result |-> NoResult, mixed |-> FALSE]

\* The claims table as config/db_init.py seeds it, line items joined: claim 9
\* and claim 10 (fraud_score NULL, <<>> below, until an audit stores one).
ClaimRows ==
    (9 :> ClaimRecord(9, "Submitted", 125000000, <<Item99213>>))
    @@ (10 :> ClaimRecord(10, "Submitted", 12500, <<Item99213>>))

ModelIds  == {None, "", Scout, Haiku3, "gpt-4"}
EnvModels == {None, Maverick, "bogus-model"}

\* The claims handed to process_audit: rows from the persistence layer,
\* records with malformed fields, and str payloads of the /process endpoint.
AuditClaims ==
    WellFormedClaims \cup MalformedClaims
    \cup {PText(JsonDumps(ClaimRecord(9, "Submitted", 125000000, <<Item99213>>))),
          PText(JsonDumps(PList(<<PNum(1), PNum(2)>>))),
          PText(RawText)}

\* Classifiers that test one of the two substrings only.
IsProfileRequired_AnyMention(e) == "inference profile" \in e.marks
IsProfileRequired_AnyValidation(e) == "ValidationException" \in e.marks

\* Line 362.
IsProfileRequired(e) ==
    "ValidationException" \in e.marks /\ "inference profile" \in e.marks
\* The elif of line 380.
IsAccessDenied(e) ==
    ~IsProfileRequired(e) /\ "AccessDeniedException" \in e.marks

PromptHead == W("You are a medical billing audit specialist. ... **Claim Data:**")
PromptTail == W("Please provide a detailed analysis with specific findings and recommendations.")

\* An emptiness test without the strip().
IsBlank_OnlyEmpty(text) == Len(text) = 0

\* audit_response.strip() == ""
IsBlank(text) == \A i \in 1..Len(text) : text[i] \in {W(" "), NL, W("\t")}

\* A decoding step that lets an empty response through.
CheckEmpty_NoSubstitute(value, config) ==
    IF value.t \in {"none", "num", "amt", "huge"} THEN Raise(Exc("TypeError"))
    ELSE IF ~PyTruthy(value) THEN Ok(<<>>)
    ELSE IF value.t = "text" THEN Ok(value.v)
    ELSE Raise(Exc("AttributeError"))

\* Lines 393-401: len(audit_response), then the empty-response check.
\* [raised, text, err]
CheckEmpty(value, config) ==
    IF value.t \in {"none", "num", "amt", "huge"} THEN Raise(Exc("TypeError"))
    ELSE IF ~PyTruthy(value) \/ (value.t = "text" /\ IsBlank(value.v))
    THEN Ok(<<W("The audit system using "), W(config.name),
              W(" could not generate an analysis at this time. Please try again later or contact system administration.")>>)
    ELSE IF value.t = "text" THEN Ok(value.v)
    ELSE Raise(Exc("AttributeError"))

(***************************************************************************)
(* The shared connection and the payments behind it                        *)
(***************************************************************************)
\* config/db_init.py, lines 155-210: claims 1 and 3 of the seeded rows, with
\* the payments seeded for them (amounts in dollars).
SeededClaims ==
    (1 :> [insurance_paid |-> 100, patient_paid |-> 25])
 @@ (3 :> [insurance_paid |-> 0, patient_paid |-> 0])

SeededPayments ==
    (1 :> [claim_id |-> 1, amount |-> 100, payment_source |-> "Insurance"])
 @@ (2 :> [claim_id |-> 1, amount |-> 25, payment_source |-> "Patient"])

\* What get_connection() hands out on its first call.
Seeded == [conn |-> "open", claims |-> SeededClaims, payments |-> SeededPayments]

\* conn.close() on the in-memory database: the tables go with the connection.
Close(st) == [conn |-> "closed", claims |-> <<>>, payments |-> <<>>]

\* What an endpoint answers: the status code, and the exception behind a 500.
Answer(st, status_code, error) ==
    [store |-> st, status_code |-> status_code, error |-> error]

\* The payment_id an INSERT gives a new row (INTEGER PRIMARY KEY).
NextPaymentId(payments) ==
    IF DOMAIN payments = {} THEN 1
    ELSE 1 + CHOOSE id \in DOMAIN payments : \A other \in DOMAIN payments : other <= id

\* db.query of a statement with a RETURNING clause (db.py, lines 60-73): the
\* statement takes effect, and then either commit() raises with the
\* statement still in progress, or (commits) query returns {"rowCount": n} or
\* None, of which the caller's result[0] raises.
ReturningFails(commits) ==
    IF commits THEN "KeyError" ELSE "OperationalError"

\* payment_routes.py, lines 97-141.
create_payment(st, claim_id, amount, payment_source, commits) ==
    IF st.conn = "closed" THEN Answer(st, 500, "ProgrammingError")
    ELSE IF claim_id \notin DOMAIN st.claims THEN Answer(st, 404, "HTTPException")
    ELSE Answer([st EXCEPT !.payments =
                    (NextPaymentId(@) :> [claim_id |-> claim_id, amount |-> amount,
                                          payment_source |-> payment_source]) @@ @],
                500, ReturningFails(commits))

\* Lines 167-204: the row after the fields that are provided are set (amount
\* is PNone or a number, payment_source None or a source).
Updated(row, amount, payment_source) ==
    [row EXCEPT !.amount = IF amount = PNone THEN @ ELSE amount.v,
                !.payment_source = IF payment_source = None THEN @ ELSE payment_source]

\* payment_routes.py, lines 158-234; payment_date and reference_number are
\* not provided.
update_payment(st, payment_id, amount, payment_source, commits) ==
    IF st.conn = "closed" THEN Answer(st, 500, "ProgrammingError")
    ELSE IF payment_id \notin DOMAIN st.payments THEN Answer(st, 404, "HTTPException")
    ELSE IF amount = PNone /\ payment_source = None THEN Answer(st, 200, "none")
    ELSE Answer([st EXCEPT !.payments[payment_id] = Updated(@, amount, payment_source)],
                500, ReturningFails(commits))

\* Lines 254-267: the claim's total for the payment's source, less the amount.
Refunded(claim, payment) ==
    IF payment.payment_source = "Insurance"
    THEN [claim EXCEPT !.insurance_paid = Max(0, @ - payment.amount)]
    ELSE [claim EXCEPT !.patient_paid = Max(0, @ - payment.amount)]

\* payment_routes.py, lines 238-277.
delete_payment(st, payment_id) ==
    IF st.conn = "closed" THEN Answer(st, 500, "ProgrammingError")
    ELSE IF payment_id \notin DOMAIN st.payments THEN Answer(st, 404, "HTTPException")
    ELSE Answer([st EXCEPT
                    !.payments = [id \in DOMAIN @ \ {payment_id} |-> @[id]],
                    !.claims[st.payments[payment_id].claim_id] =
                        Refunded(@, st.payments[payment_id])],
                200, "none")

\* claim_routes.py, lines 176-246 and 304-348: the first cursor.execute is
\* handed a statement with a %s placeholder, which SQLite does not parse; the
\* handler rolls back and the finally block closes the shared connection.  On
\* a connection that is closed already conn.cursor() raises.
create_claim(st, patient_id) ==
    IF st.conn = "closed" THEN Answer(st, 500, "ProgrammingError")
    ELSE Answer(Close(st), 500, "OperationalError")

delete_claim(st, claim_id) ==
    IF st.conn = "closed" THEN Answer(st, 500, "ProgrammingError")
    ELSE Answer(Close(st), 500, "OperationalError")

\* db.query("SELECT * FROM claims WHERE claim_id = %s", [claim_id]).
query(st, claim_id) ==
    IF st.conn = "closed" THEN Raises(Exc("ProgrammingError"))
    ELSE Returns(IF claim_id \in DOMAIN st.claims THEN <<st.claims[claim_id]>> ELSE <<>>)

Init ==
    /\ environ \in EnvModels
    /\ sklearn \in BOOLEAN
    /\ pc = "idle"
    /\ claim_data = Unset
    /\ model_id = None
    /\ model_config = Unset
    /\ actual_model_id = None
    /\ formatted_claim_data = <<>>
    /\ audit_prompt = <<>>
    /\ response = Unset
    /\ audit_response = <<>>
    /\ invoke_error = NoExc
    /\ exc = NoExc
    /\ invocations = <<>>
    /\ result = NoResult
    /\ probe = NoProbe
    /\ database = [claim_id \in DOMAIN ClaimRows |-> <<>>]
    /\ request = NoRequest
    /\ suspended = IdleFrame
    /\ overlapped = FALSE
    /\ cancelled = FALSE
    /\ store = Seeded
    /\ registry = AtStart

\* The frame of a call that starts: the arguments bound, the locals unbound.
Enter(claim, mid) ==
    /\ pc' = "resolve"
    /\ claim_data' = claim
    /\ model_id' = mid
    /\ model_config' = Unset
    /\ actual_model_id' = None
    /\ formatted_claim_data' = <<>>
    /\ audit_prompt' = <<>>
    /\ response' = Unset
    /\ audit_response' = <<>>
    /\ invoke_error' = NoExc
    /\ exc' = NoExc
    /\ invocations' = <<>>
    /\ result' = NoResult

\* A caller enters process_audit(claim, mid).
Call(claim, mid) ==
    /\ pc = "idle"
    /\ Enter(claim, mid)
    /\ UNCHANGED <<elsewhere, environ, sklearn>>

\* Lines 283-284.
Resolve ==
    /\ pc = "resolve"
    /\ model_config' = get_model_config(model_id)
    /\ actual_model_id' = model_config'.model_id
    /\ pc' = "client"
    /\ registry' = AfterLookup(registry, model_id)
    /\ UNCHANGED <<probe, beyond, environ, sklearn, claim_data, model_id, formatted_claim_data,
                   audit_prompt, response, audit_response, invoke_error, exc,
                   invocations, result>>

\* A client step that goes on to the invocation with no claim formatted.
CreateClient_SkipsFormat(ok) ==
    /\ pc = "client"
    /\ IF ok THEN pc' = "invoke" /\ exc' = exc
       ELSE pc' = "mock" /\ exc' = Exc("BotoCoreError")
    /\ UNCHANGED <<elsewhere, environ, sklearn, claim_data, model_id, model_config,
                   actual_model_id, formatted_claim_data, audit_prompt, response,
                   audit_response, invoke_error, invocations, result>>

\* Line 318: get_bedrock_client() returns a client, or boto3 raises.
CreateClient(ok) ==
    /\ pc = "client"
    /\ IF ok THEN pc' = "format" /\ exc' = exc
       ELSE pc' = "mock" /\ exc' = Exc("BotoCoreError")
    /\ UNCHANGED <<elsewhere, environ, sklearn, claim_data, model_id, model_config,
                   actual_model_id, formatted_claim_data, audit_prompt, response,
                   audit_response, invoke_error, invocations, result>>

\* The effect of the formatter's outcome r on the locals.
Formatted(r) ==
    IF r.raised
    THEN /\ exc' = r.err
         /\ pc' = "mock"
         /\ UNCHANGED <<formatted_claim_data, audit_prompt>>
    ELSE /\ formatted_claim_data' = r.text
         /\ audit_prompt' = <<PromptHead>> \o r.text \o <<PromptTail>>
         /\ pc' = "invoke"
         /\ exc' = exc

\* Lines 321-349: format the claim and build the prompt.
Format ==
    /\ pc = "format"
    /\ Formatted(format_claim_data_for_llm(claim_data))
    /\ UNCHANGED <<elsewhere, environ, sklearn, claim_data, model_id, model_config,
                   actual_model_id, response, audit_response, invoke_error,
                   invocations, result>>

\* One invoke_model call as the Inference Client sees it.
Invocation(target, body, ok, error) ==
    [modelId |-> target, body |-> body, ok |-> ok, error |-> error]

\* Lines 352-356: the first invocation returns a response.
InvokeOk(payload) ==
    /\ pc = "invoke"
    /\ invocations' = Append(invocations,
          Invocation(actual_model_id,
                     create_request_body(audit_prompt, model_config), TRUE, NoExc))
    /\ response' = payload
    /\ pc' = "decode"
    /\ UNCHANGED <<elsewhere, environ, sklearn, claim_data, model_id, model_config,
                   actual_model_id, formatted_claim_data, audit_prompt,
                   audit_response, invoke_error, exc, result>>

\* Lines 357-385: the first invocation raises; the handler classifies it.
InvokeFail(e) ==
    /\ pc = "invoke"
    /\ invocations' = Append(invocations,
          Invocation(actual_model_id,
                     create_request_body(audit_prompt, model_config), FALSE, e))
    /\ invoke_error' = e
    /\ IF IsProfileRequired(e)
       THEN pc' = "fallback" /\ exc' = exc
       ELSE pc' = "mock" /\ exc' = e        \* raise invoke_error
    /\ UNCHANGED <<elsewhere, environ, sklearn, claim_data, model_id, model_config,
                   actual_model_id, formatted_claim_data, audit_prompt, response,
                   audit_response, result>>

\* A fallback hop that forgets lines 374-375 (the locals keep the requested
\* provider).
FallbackOk_KeepsRequested(payload) ==
    /\ pc = "fallback"
    /\ invocations' = Append(invocations,
          Invocation(FALLBACK_MODEL,
                     create_request_body(audit_prompt, get_model_config(FALLBACK_MODEL)),
                     TRUE, NoExc))
    /\ response' = payload
    /\ pc' = "decode"
    /\ UNCHANGED <<elsewhere, environ, sklearn, claim_data, model_id, model_config,
                   actual_model_id, formatted_claim_data, audit_prompt,
                   audit_response, invoke_error, exc, result>>

\* Lines 366-376: the fallback invocation returns a response.
FallbackOk(payload) ==
    /\ pc = "fallback"
    /\ model_config' = get_model_config(FALLBACK_MODEL)
    /\ actual_model_id' = model_config'.model_id
    /\ invocations' = Append(invocations,
          Invocation(model_config'.model_id,
                     create_request_body(audit_prompt, model_config'), TRUE, NoExc))
    /\ response' = payload
    /\ pc' = "decode"
    /\ registry' = AfterLookup(registry, FALLBACK_MODEL)
    /\ UNCHANGED <<probe, beyond, environ, sklearn, claim_data, model_id,
                   formatted_claim_data, audit_prompt, audit_response, invoke_error,
                   exc, result>>

\* Lines 366-373: the fallback request, which raises.
FallbackCall(fallback_config, e) ==
    Invocation(fallback_config.model_id,
               create_request_body(audit_prompt, fallback_config), FALSE, e)

\* A fallback hop that lets the fallback's own error reach the handler.
FallbackFail_RaisesFallbackError(e) ==
    /\ pc = "fallback"
    /\ invocations' = Append(invocations,
                              FallbackCall(get_model_config(FALLBACK_MODEL), e))
    /\ exc' = e
    /\ pc' = "mock"
    /\ registry' = AfterLookup(registry, FALLBACK_MODEL)
    /\ UNCHANGED <<probe, beyond, environ, sklearn, claim_data, model_id, model_config,
                   actual_model_id, formatted_claim_data, audit_prompt, response,
                   audit_response, invoke_error, result>>

\* Lines 366-379: the fallback invocation raises; the first error is re-raised.
FallbackFail(e) ==
    /\ pc = "fallback"
    /\ invocations' = Append(invocations,
                              FallbackCall(get_model_config(FALLBACK_MODEL), e))
    /\ exc' = invoke_error                  \* raise invoke_error
    /\ pc' = "mock"
    /\ registry' = AfterLookup(registry, FALLBACK_MODEL)
    /\ UNCHANGED <<probe, beyond, environ, sklearn, claim_data, model_id, model_config,
                   actual_model_id, formatted_claim_data, audit_prompt, response,
                   audit_response, invoke_error, result>>

\* The effect of the decoding outcome r on the locals.
Decoded(r) ==
    IF r.raised
    THEN exc' = r.err /\ pc' = "mock" /\ audit_response' = audit_response
    ELSE audit_response' = r.text /\ pc' = "score" /\ exc' = exc

\* Lines 388-401: json.loads, parse_model_response, the empty-response check.
Decode ==
    /\ pc = "decode"
    /\ IF ~response.json_ok
       THEN Decoded(Raise(Exc("JSONDecodeError")))
       ELSE Decoded(CheckEmpty(parse_model_response(response.value, model_config),
                               model_config))
    /\ UNCHANGED <<elsewhere, environ, sklearn, claim_data, model_id, model_config,
                   actual_model_id, formatted_claim_data, audit_prompt, response,
                   invoke_error, invocations, result>>

\* A response object that names the provider the caller asked for.
Score_NamesRequested ==
    /\ pc = "score"
    /\ LET fraud_score == calculate_fraud_score(formatted_claim_data,
                                                audit_response, sklearn)
           requested == get_model_config(model_id)
       IN  result' = [audit_result |-> audit_response,
                      success |-> TRUE,
                      details |-> [fraud_score |-> fraud_score,
                                   model_used |-> <<W(requested.model_id)>>,
                                   model_name |-> <<W(model_config.name)>>,
                                   model_provider |-> <<W(model_config.provider)>>,
                                   prompt_length |-> Len(audit_prompt),
                                   response_length |-> Len(audit_response),
                                   timestamp |-> "now"]]
    /\ pc' = "done"
    /\ UNCHANGED <<elsewhere, environ, sklearn, claim_data, model_id, model_config,
                   actual_model_id, formatted_claim_data, audit_prompt, response,
                   audit_response, invoke_error, exc, invocations>>

\* Lines 404-424: the score, the response object, return.
Score ==
    /\ pc = "score"
    /\ LET fraud_score == calculate_fraud_score(formatted_claim_data,
                                                audit_response, sklearn)
       IN  result' = [audit_result |-> audit_response,
                      success |-> TRUE,
                      details |-> [fraud_score |-> fraud_score,
                                   model_used |-> <<W(actual_model_id)>>,
                                   model_name |-> <<W(model_config.name)>>,
                                   model_provider |-> <<W(model_config.provider)>>,
                                   prompt_length |-> Len(audit_prompt),
                                   response_length |-> Len(audit_response),
                                   timestamp |-> "now"]]
    /\ pc' = "done"
    /\ UNCHANGED <<elsewhere, environ, sklearn, claim_data, model_id, model_config,
                   actual_model_id, formatted_claim_data, audit_prompt, response,
                   audit_response, invoke_error, exc, invocations>>

\* A handler that reports the resolved provider as the one used.
MockFallback_ActualModel(mock_response) ==
    [mock_response EXCEPT !.details =
        ("model_used" :> <<W(actual_model_id)>>) @@ ("error" :> exc) @@ @]

\* Lines 433-435: the two fields the handler overwrites in the mock's result.
MockFallback(mock_response) ==
    [mock_response EXCEPT !.details =
        ("model_used" :> <<W("MOCK_FALLBACK (requested: "),
                           W(OrDefault(model_id, "default")), W(")")>>)
        @@ ("error" :> exc) @@ @]

\* Lines 438-446: the result when the Mock Responder itself raised.
Unavailable ==
    [audit_result |-> <<W("Audit system temporarily unavailable. Error: "), W(exc.cls)>>,
     success |-> FALSE,
     details |-> [error |-> exc,
                  model_requested |-> <<W(OrDefault(model_id, "default"))>>,
                  timestamp |-> "now"]]

\* Lines 431-446: m is what the call of the Mock Responder yielded.
MockHandler(m) == IF m.raised THEN Unavailable ELSE MockFallback(m.value)

\* Lines 426-446: the outer handler hands the claim to the Mock Responder.
Mock ==
    /\ pc = "mock"
    /\ result' = MockHandler(generate_mock_audit_response(claim_data, model_id))
    /\ pc' = "done"
    /\ registry' = AfterMock(registry, model_id, format_claim_data_for_llm(claim_data))
    /\ UNCHANGED <<probe, beyond, environ, sklearn, claim_data, model_id, model_config,
                   actual_model_id, formatted_claim_data, audit_prompt, response,
                   audit_response, invoke_error, exc, invocations>>

\* The frame once the call has returned: its locals are gone.
Leave ==
    /\ pc' = "idle"
    /\ claim_data' = Unset
    /\ model_id' = None
    /\ model_config' = Unset
    /\ actual_model_id' = None
    /\ formatted_claim_data' = <<>>
    /\ audit_prompt' = <<>>
    /\ response' = Unset
    /\ audit_response' = <<>>
    /\ invoke_error' = NoExc
    /\ exc' = NoExc
    /\ invocations' = <<>>
    /\ result' = NoResult

\* The caller takes the returned value.
Return ==
    /\ pc = "done"
    /\ Leave
    /\ UNCHANGED <<elsewhere, environ, sklearn>>

Next ==
    \/ \E claim \in AuditClaims, mid \in ModelIds : Call(claim, mid)
    \/ Resolve
    \/ \E ok \in BOOLEAN : CreateClient(ok)
    \/ Format
    \/ \E payload \in Payloads : InvokeOk(payload)
    \/ \E e \in InvokeErrors : InvokeFail(e)
    \/ \E payload \in Payloads : FallbackOk(payload)
    \/ \E e \in InvokeErrors : FallbackFail(e)
    \/ Decode
    \/ Score
    \/ Mock
    \/ Return

Spec == Init /\ [][Next]_vars

(***************************************************************************)
(* The adapters called on their own                                        *)
(***************************************************************************)
\* The variables of the process_audit frame.
frame == <<pc, claim_data, model_id, model_config, actual_model_id,
           formatted_claim_data, audit_prompt, response, audit_response,
           invoke_error, exc, invocations, result>>

\* Request-shape tags: the three dialects and a tag the adapters do not know.
ShapeTags == {"claude", "llama", "mistral", "titan"}

\* Configurations as get_model_config returns them, with every shape tag.
AdapterConfigs ==
    {[ConfigOf(id) EXCEPT !.type = t] : id \in {Sonnet4, Haiku3, Scout}, t \in ShapeTags}

AdapterPrompts == {<<>>, <<W("Test")>>, <<PromptHead, W("Claim ID: "), IntTok(9), PromptTail>>}

MistralBody(text) == PDict([outputs |-> PList(<<PDict([text |-> text])>>)])

\* Response bodies: those of the Inference Client above, the third dialect,
\* and bodies whose fields have the wrong type.
AdapterBodies ==
    {p.value : p \in {q \in Payloads : q.json_ok}}
    \cup {MistralBody(PText(GoodText)), MistralBody(PNone),
          PDict([outputs |-> PList(<<>>)]), PDict([outputs |-> PList(<<PNum(1)>>)]),
          PDict([content |-> PText(<<W("abc")>>)]), PNone}

\* create_request_body(prompt, config) called on its own.
EncodeCall(prompt, config) ==
    /\ probe' = [op |-> "create_request_body", prompt |-> prompt, config |-> config,
                 out |-> create_request_body(prompt, config)]
    /\ UNCHANGED <<environ, sklearn, frame, beyond, registry>>

\* parse_model_response(response_body, config) called on its own.
DecodeCall(response_body, config) ==
    /\ probe' = [op |-> "parse_model_response", response_body |-> response_body,
                 config |-> config,
                 out |-> parse_model_response(response_body, config)]
    /\ UNCHANGED <<environ, sklearn, frame, beyond, registry>>

NextAdapters ==
    \/ \E prompt \in AdapterPrompts, config \in AdapterConfigs : EncodeCall(prompt, config)
    \/ \E body \in AdapterBodies, config \in AdapterConfigs : DecodeCall(body, config)

SpecAdapters == Init /\ [][NextAdapters]_vars

(***************************************************************************)
(* The formatter called on its own                                         *)
(***************************************************************************)
\* Well-formed claim records: rows that differ in id, status, total and items.
FormatRecords ==
    {ClaimRecord(id, status, total, items) :
        id \in {9, 12}, status \in {"Submitted", "Paid"},
        total \in {12500, 125000000}, items \in ItemSeqs}

FormatInputs == FormatRecords \cup MalformedClaims \cup TextClaims

\* format_claim_data_for_llm(claim) called on its own; out is [raised, text, err].
FormatCall(claim) ==
    /\ probe' = [op |-> "format_claim_data_for_llm", claim |-> claim,
                 out |-> format_claim_data_for_llm(claim)]
    /\ UNCHANGED <<environ, sklearn, frame, beyond, registry>>

NextFormatter == \E claim \in FormatInputs : FormatCall(claim)

SpecFormatter == Init /\ [][NextFormatter]_vars

(***************************************************************************)
(* The scorer called on its own                                            *)
(***************************************************************************)
ScoreItems == {<<>>, <<Item99213, Item99213>>}

\* Claim rows that differ in total_charge and in the number of line items.
ScoreRecords ==
    {ClaimRecord(9, "Submitted", total, items) :
        total \in {12500, 125000000}, items \in ScoreItems}

\* The text process_audit hands to the scorer for a claim.
FormattedText(claim) == format_claim_data_for_llm(claim).text

ScoreClaimTexts == {FormattedText(r) : r \in ScoreRecords} \cup {<<>>, RawText}
ScoreAuditTexts == {<<>>, GoodText, RiskyText}

\* The first scorer call of the behaviour, as the probe remembers it.
CallOf(p) == [op |-> p.op, claim_data |-> p.claim_data,
              audit_result |-> p.audit_result, out |-> p.out]
Earlier(p) ==
    IF p.op # "calculate_fraud_score" THEN NoProbe
    ELSE IF p.earlier = NoProbe THEN CallOf(p) ELSE p.earlier

\* Whether a call with other arguments was made since that first call.
Between(p) ==
    /\ p.op = "calculate_fraud_score"
    /\ \/ p.between
       \/ p.earlier # NoProbe
          /\ <<p.claim_data, p.audit_result>>
             # <<p.earlier.claim_data, p.earlier.audit_result>>

\* A scorer that adds each score to the one it returned before.
ScoreCall_Accumulating(claim_text, audit_text) ==
    /\ probe' = [op |-> "calculate_fraud_score", claim_data |-> claim_text,
                 audit_result |-> audit_text,
                 out |-> Min(calculate_fraud_score(claim_text, audit_text, sklearn)
                             + (IF probe.op = "calculate_fraud_score" THEN probe.out
                                ELSE 0), 10000),
                 earlier |-> Earlier(probe),
                 between |-> Between(probe)]
    /\ UNCHANGED <<environ, sklearn, frame, beyond, registry>>

\* calculate_fraud_score(claim_data, audit_result) called on its own.
ScoreCall(claim_text, audit_text) ==
    /\ probe' = [op |-> "calculate_fraud_score", claim_data |-> claim_text,
                 audit_result |-> audit_text,
                 out |-> calculate_fraud_score(claim_text, audit_text, sklearn),
                 earlier |-> Earlier(probe),
                 between |-> Between(probe)]
    /\ UNCHANGED <<environ, sklearn, frame, beyond, registry>>

NextScorer ==
    \E claim_text \in ScoreClaimTexts, audit_text \in ScoreAuditTexts :
        ScoreCall(claim_text, audit_text)

SpecScorer == Init /\ [][NextScorer]_vars

\* The scorer on texts that repeat indicators and spell them in capitals.
LexicalClaimTexts == {<<>>, RawText}
LexicalAuditTexts == {<<>>, RiskyText, RepeatText}

NextLexical ==
    \E claim_text \in LexicalClaimTexts, audit_text \in LexicalAuditTexts :
        ScoreCall(claim_text, audit_text)

SpecLexical == Init /\ [][NextLexical]_vars

(***************************************************************************)
(* The Mock Responder called on its own                                    *)
(***************************************************************************)
MockModelIds == ModelIds \cup {Sonnet4}

\* A Mock Responder that asks the Inference Client for the default model.
MockCall_ThroughClient(claim, requested_model) ==
    /\ probe' = [op |-> "generate_mock_audit_response", claim |-> claim,
                 requested_model |-> requested_model,
                 out |-> generate_mock_audit_response(claim, requested_model)]
    /\ invocations' = <<Invocation(DEFAULT_MODEL, <<>>, FALSE, Exc("ReadTimeoutError"))>>
    /\ UNCHANGED <<environ, sklearn, pc, claim_data, model_id, model_config,
                   actual_model_id, formatted_claim_data, audit_prompt, response,
                   audit_response, invoke_error, exc, result, beyond, registry>>

\* generate_mock_audit_response(claim_data, requested_model) called on its own.
MockCall(claim, requested_model) ==
    /\ probe' = [op |-> "generate_mock_audit_response", claim |-> claim,
                 requested_model |-> requested_model,
                 out |-> generate_mock_audit_response(claim, requested_model)]
    /\ registry' = AfterMock(registry, requested_model, format_claim_data_for_llm(claim))
    /\ UNCHANGED <<environ, sklearn, frame, beyond>>

NextMock ==
    \E claim \in AuditClaims, requested_model \in MockModelIds :
        MockCall(claim, requested_model)

SpecMock == Init /\ [][NextMock]_vars

(***************************************************************************)
(* audit_claim: the endpoint that audits a stored claim                    *)
(***************************************************************************)
AuditClaimIds == DOMAIN ClaimRows \cup {99}
AuditModelIds == {None, Scout}

\* What the Inference Client answers in the runs of the endpoint.
AuditPayloads ==
    {[json_ok |-> TRUE, value |-> ClaudeBody(PText(GoodText))],
     [json_ok |-> TRUE, value |-> ClaudeBody(PText(RiskyText))],
     [json_ok |-> FALSE, value |-> PNone]}
AuditErrors == {e \in InvokeErrors : IsProfileRequired(e) \/ IsAccessDenied(e)}

\* Lines 710-715: frontend_response.
FrontendResponse(claim_id, audit_result) ==
    [at |-> "responded", claim_id |-> claim_id, status_code |-> 200,
     body |-> [claim_id |-> claim_id, analysis |-> audit_result.audit_result,
               success |-> audit_result.success, details |-> audit_result.details]]

\* Lines 720-722: whatever the try block raises becomes an HTTP 500, the
\* HTTPException(404) of line 672 included.
ServerError(claim_id, e) ==
    [at |-> "responded", claim_id |-> claim_id, status_code |-> 500,
     body |-> [detail |-> e]]

\* Lines 652-691: the claim row and its items are read and handed to
\* process_audit; an unknown claim_id ends the request.
AuditCall(claim_id, mid) ==
    /\ pc = "idle"
    /\ request.at # "auditing"
    /\ IF claim_id \in DOMAIN ClaimRows
       THEN /\ request' = [at |-> "auditing", claim_id |-> claim_id]
            /\ Enter(ClaimRows[claim_id], mid)
       ELSE /\ request' = ServerError(claim_id, Exc("HTTPException"))
            /\ UNCHANGED frame
    /\ UNCHANGED <<environ, sklearn, probe, database, suspended, overlapped, registry, later>>

\* An UPDATE without its WHERE clause.
Update_AllRows(table, claim_id, fraud_score) ==
    [id \in DOMAIN table |-> <<fraud_score>>]

\* Lines 702-705: UPDATE claims SET fraud_score = %s WHERE claim_id = %s.
Update(table, claim_id, fraud_score) ==
    [table EXCEPT ![claim_id] = <<fraud_score>>]

\* Lines 698-717 for the result audit_result of the audit: write says whether
\* the condition of line 698 holds, db_ok whether db.query succeeds.
Stored(audit_result, write, db_ok) ==
    IF write /\ ~db_ok
    THEN /\ database' = database
         /\ request' = ServerError(request.claim_id, Exc("OperationalError"))
    ELSE /\ database' = IF write
                        THEN Update(database, request.claim_id,
                                    audit_result.details.fraud_score)
                        ELSE database
         /\ request' = FrontendResponse(request.claim_id, audit_result)

\* Lines 691-717: process_audit has returned to audit_claim.
AuditStore(db_ok) ==
    /\ pc = "done"
    /\ request.at = "auditing"
    /\ Stored(result, result.success /\ "fraud_score" \in DOMAIN result.details, db_ok)
    /\ Leave
    /\ UNCHANGED <<environ, sklearn, probe, suspended, overlapped, registry, later>>

NextAudit ==
    \/ \E claim_id \in AuditClaimIds, mid \in AuditModelIds : AuditCall(claim_id, mid)
    \/ Resolve
    \/ \E ok \in BOOLEAN : CreateClient(ok)
    \/ Format
    \/ \E payload \in AuditPayloads : InvokeOk(payload)
    \/ \E e \in AuditErrors : InvokeFail(e)
    \/ \E payload \in AuditPayloads : FallbackOk(payload)
    \/ \E e \in AuditErrors : FallbackFail(e)
    \/ Decode
    \/ Score
    \/ Mock
    \/ \E db_ok \in BOOLEAN : AuditStore(db_ok)

SpecAudit == Init /\ [][NextAudit]_vars

(***************************************************************************)
(* Two calls of process_audit in flight                                    *)
(***************************************************************************)
PairModelIds == {None, Scout}
PairPayloads ==
    {[json_ok |-> TRUE, value |-> ClaudeBody(PText(GoodText))],
     [json_ok |-> FALSE, value |-> PNone]}
PairErrors ==
    {e \in InvokeErrors :
        \/ IsProfileRequired(e)
        \/ IsAccessDenied(e) /\ "inference profile" \notin e.marks}

InFlight(at) == at \notin {"idle", "done"}

\* A caller enters process_audit(claim, mid) while the other call may be in
\* flight.
PairCall(claim, mid) ==
    /\ pc = "idle"
    /\ Enter(claim, mid)
    /\ overlapped' = InFlight(suspended.pc)
    /\ suspended' = [suspended EXCEPT !.mixed = @ \/ InFlight(suspended.pc)]
    /\ UNCHANGED <<environ, sklearn, probe, database, request, registry, later>>

\* The event loop leaves the call that was taking steps and resumes the
\* other one: each call keeps its own locals; restored is the value the
\* resumed call finds in actual_model_id.
Resume(restored) ==
    /\ suspended' =
          [pc |-> pc, claim_data |-> claim_data, model_id |-> model_id,
           model_config |-> model_config, actual_model_id |-> actual_model_id,
           formatted_claim_data |-> formatted_claim_data,
           audit_prompt |-> audit_prompt, response |-> response,
           audit_response |-> audit_response, invoke_error |-> invoke_error,
           exc |-> exc, invocations |-> invocations, result |-> result,
           mixed |-> overlapped]
    /\ pc' = suspended.pc
    /\ claim_data' = suspended.claim_data
    /\ model_id' = suspended.model_id
    /\ model_config' = suspended.model_config
    /\ actual_model_id' = restored
    /\ formatted_claim_data' = suspended.formatted_claim_data
    /\ audit_prompt' = suspended.audit_prompt
    /\ response' = suspended.response
    /\ audit_response' = suspended.audit_response
    /\ invoke_error' = suspended.invoke_error
    /\ exc' = suspended.exc
    /\ invocations' = suspended.invocations
    /\ result' = suspended.result
    /\ overlapped' = suspended.mixed
    /\ UNCHANGED <<environ, sklearn, probe, database, request, registry, later>>

\* actual_model_id kept in one place for both calls.
Switch_SharedModelId == Resume(actual_model_id)

Switch == Resume(suspended.actual_model_id)

NextPair ==
    \/ \E mid \in PairModelIds : PairCall(ClaimRows[9], mid)
    \/ Switch
    \/ Resolve
    \/ \E ok \in BOOLEAN : CreateClient(ok)
    \/ Format
    \/ \E payload \in PairPayloads : InvokeOk(payload)
    \/ \E e \in PairErrors : InvokeFail(e)
    \/ \E payload \in PairPayloads : FallbackOk(payload)
    \/ \E e \in PairErrors : FallbackFail(e)
    \/ Decode
    \/ Score
    \/ Mock
    \/ Return

SpecPair == Init /\ [][NextPair]_vars

(***************************************************************************)
(* process_audit run to its end                                            *)
(***************************************************************************)
\* A stored row, and a record the formatter cannot put into text.
LiveClaims == {ClaimRows[9], BlobClaim}

\* The statements of a call that has been entered (lines 281-446).  The
\* coroutine awaits nothing but its own helpers, and invoke_model returns or
\* raises within the client's timeouts, so a call that can take a step takes it.
Running ==
    \/ Resolve
    \/ \E ok \in BOOLEAN : CreateClient(ok)
    \/ Format
    \/ \E payload \in PairPayloads : InvokeOk(payload)
    \/ \E e \in PairErrors : InvokeFail(e)
    \/ \E payload \in PairPayloads : FallbackOk(payload)
    \/ \E e \in PairErrors : FallbackFail(e)
    \/ Decode
    \/ Score
    \/ Mock

NextLive ==
    \/ \E claim \in LiveClaims, mid \in PairModelIds : Call(claim, mid)
    \/ Running
    \/ Return

\* A step of Running seen on pc alone: every statement of Running moves pc,
\* and in every position between entry and return one of them can be taken.
Advance ==
    /\ pc \notin {"idle", "done"}
    /\ pc' \in {"client", "format", "invoke", "fallback", "decode", "score", "mock", "done"}

SpecLive == Init /\ [][NextLive]_vars /\ WF_pc(Advance)

(***************************************************************************)
(* process_audit in a task that is cancelled                               *)
(***************************************************************************)
\* Lines 352-356 and 370-373: invoke_model is a blocking call made on the
\* event loop's thread.  A request to cancel the task that arrives while the
\* call is in flight is recorded on the task; nothing in process_audit reads
\* it, and the blocking call is not interrupted.
Cancel ==
    /\ pc \in {"invoke", "fallback"}
    /\ ~cancelled
    /\ cancelled' = TRUE
    /\ UNCHANGED <<environ, sklearn, frame, probe, registry, database, request,
                   suspended, overlapped, store>>

\* The coroutine of a cancelled task returns: the task ends cancelled and what
\* process_audit returned is dropped; the awaiting caller gets CancelledError.
Discard ==
    /\ pc = "done"
    /\ cancelled
    /\ Leave
    /\ cancelled' = FALSE
    /\ probe' = [op |-> "process_audit", out |-> Raises(Exc("CancelledError"))]
    /\ UNCHANGED <<environ, sklearn, registry, database, request, suspended,
                   overlapped, store>>

\* The caller of a task that was not cancelled takes the returned value.
Deliver ==
    /\ ~cancelled
    /\ probe' = [op |-> "process_audit", out |-> Returns(result)]
    /\ pc = "done"
    /\ Leave
    /\ UNCHANGED <<environ, sklearn, registry, beyond>>

NextCancel ==
    \/ \E mid \in PairModelIds : Call(ClaimRows[9], mid)
    \/ Running
    \/ Cancel
    \/ Discard
    \/ Deliver

SpecCancel == Init /\ [][NextCancel]_vars

(***************************************************************************)
(* The claim and payment endpoints                                         *)
(***************************************************************************)
\* The state the endpoints below leave alone.
aside == <<environ, sklearn, frame, registry, database, request, suspended,
           overlapped, cancelled>>

\* The call as the client saw it, for the answer a of the endpoint.
Seen(op, arg, a) ==
    [op |-> op, arg |-> arg, status_code |-> a.status_code, error |-> a.error]

PaymentIds == 1..3
Amounts == {50}

CreatePayment(claim_id, amount, payment_source, commits) ==
    /\ NextPaymentId(store.payments) \in PaymentIds
    /\ LET a == create_payment(store, claim_id, amount, payment_source, commits)
       IN  store' = a.store /\ probe' = Seen("create_payment", claim_id, a)
    /\ UNCHANGED aside

UpdatePayment(payment_id, amount, payment_source, commits) ==
    /\ LET a == update_payment(store, payment_id, amount, payment_source, commits)
       IN  store' = a.store /\ probe' = Seen("update_payment", payment_id, a)
    /\ UNCHANGED aside

DeletePayment(payment_id) ==
    /\ LET a == delete_payment(store, payment_id)
       IN  store' = a.store /\ probe' = Seen("delete_payment", payment_id, a)
    /\ UNCHANGED aside

NextPayments ==
    \/ \E claim_id \in {1, 3, 99}, amount \in Amounts,
          payment_source \in {"Insurance", "Patient"}, commits \in BOOLEAN :
          CreatePayment(claim_id, amount, payment_source, commits)
    \/ \E payment_id \in PaymentIds, amount \in {PNum(n) : n \in Amounts} \cup {PNone},
          payment_source \in {"Insurance", "Patient", None}, commits \in BOOLEAN :
          UpdatePayment(payment_id, amount, payment_source, commits)
    \/ \E payment_id \in PaymentIds : DeletePayment(payment_id)

SpecPayments == Init /\ [][NextPayments]_vars

CreateClaim(patient_id) ==
    /\ LET a == create_claim(store, patient_id)
       IN  store' = a.store /\ probe' = Seen("create_claim", patient_id, a)
    /\ UNCHANGED aside

DeleteClaim(claim_id) ==
    /\ LET a == delete_claim(store, claim_id)
       IN  store' = a.store /\ probe' = Seen("delete_claim", claim_id, a)
    /\ UNCHANGED aside

\* A later db.query in the same process.
Query(claim_id) ==
    /\ probe' = [op |-> "db.query", arg |-> claim_id, out |-> query(store, claim_id),
                 rows |-> store.claims]
    /\ UNCHANGED <<aside, store>>

NextClaims ==
    \/ \E patient_id \in {1, 99} : CreateClaim(patient_id)
    \/ \E claim_id \in {1, 3, 99} : DeleteClaim(claim_id)
    \/ \E claim_id \in {1, 3, 99} : Query(claim_id)
    \/ \E payment_id \in PaymentIds : DeletePayment(payment_id)

SpecClaims == Init /\ [][NextClaims]_vars

(***************************************************************************)
(* The catalog under lookups                                               *)
(***************************************************************************)
\* get_model_config(model_id) called on its own; ref is the dict the caller
\* now holds.
LookupCall(mid) ==
    /\ pc = "idle"
    /\ probe' = [op |-> "get_model_config", model_id |-> mid,
                 out |-> get_model_config(mid), ref |-> DictCopy(LookupKey(mid))]
    /\ registry' = AfterLookup(registry, mid)
    /\ UNCHANGED <<environ, sklearn, frame, beyond>>

\* The caller adds a field to the configuration it was handed.
Annotate ==
    /\ pc = "idle"
    /\ probe.op = "get_model_config"
    /\ "is_default" \notin DOMAIN probe.out
    /\ probe' = [probe EXCEPT !.out = ("is_default" :> (@.model_id = DEFAULT_MODEL)) @@ @]
    /\ registry' = SetItem(registry, probe.ref, "is_default",
                           probe.out.model_id = DEFAULT_MODEL)
    /\ UNCHANGED <<environ, sklearn, frame, beyond>>

NextCatalog ==
    \/ \E mid \in ModelIds : LookupCall(mid)
    \/ Annotate
    \/ \E mid \in PairModelIds : pc = "idle" /\ MockCall(ClaimRows[9], mid)
    \/ \E mid \in PairModelIds : Call(ClaimRows[9], mid)
    \/ Resolve
    \/ \E ok \in BOOLEAN : CreateClient(ok)
    \/ Format
    \/ \E payload \in PairPayloads : InvokeOk(payload)
    \/ \E e \in PairErrors : InvokeFail(e)
    \/ \E payload \in PairPayloads : FallbackOk(payload)
    \/ \E e \in PairErrors : FallbackFail(e)
    \/ Decode
    \/ Score
    \/ Mock
    \/ Return

SpecCatalog == Init /\ [][NextCatalog]_vars

(***************************************************************************)
(* Properties of process_audit                                             *)
(***************************************************************************)
\* The kinds of error the Inference Client raises, read off the error itself
\* (its code and its message), not off the handler's classification.
ProfileRequiredError(e) == e.marks = {"ValidationException", "inference profile"}
AccessDeniedError(e)    == "AccessDeniedException" \in e.marks
OtherError(e)           == ~ProfileRequiredError(e) /\ ~AccessDeniedError(e)

\* The ids of the real providers, as details.model_used would hold them.
ProviderIds == {<<W(id)>> : id \in DOMAIN SUPPORTED_MODELS}

IsTextValue(text) == \A i \in 1..Len(text) : DOMAIN text[i] = {"k", "s", "n"}

\* details.model_used marks a mock origin.
MockOrigin(r) ==
    /\ "model_used" \in DOMAIN r.details
    /\ r.details.model_used[1] \in {W("MOCK_FALLBACK (requested: "),
                                    W("MOCK_SYSTEM (would_use: ")}

\* The analysis text is the Mock Responder's report.
MockReport(r) ==
    r.audit_result[1] =
        W("**MEDICAL BILLING AUDIT REPORT** *Generated by Mock Audit System*")

WellFormed(r) ==
    /\ DOMAIN r = {"audit_result", "success", "details"}
    /\ Len(r.audit_result) > 0
    /\ IsTextValue(r.audit_result)
    /\ r.success \in BOOLEAN
    /\ "timestamp" \in DOMAIN r.details

\* C1: for every claim input and every outcome of the Inference Client,
\* process_audit returns a result with a non-empty analysis text, a boolean
\* success flag and a details bag; an exception raised on the way is always
\* in the hands of the handler, which turns it into such a result.
C1_AlwaysWellFormed ==
    /\ pc = "done" => WellFormed(result)
    /\ exc # NoExc => pc \in {"mock", "done"}
    /\ pc = "done" /\ exc # NoExc => result.details.error = exc

\* The provider's response could not be decoded, and the call returned a
\* well-formed result all the same.
C1_Witness ==
    /\ pc = "done"
    /\ exc.cls = "JSONDecodeError"
    /\ WellFormed(result)

\* The fallback hop was taken and invoke_model returned for the fallback.
FallbackReturned ==
    /\ Len(invocations) = 2
    /\ ProfileRequiredError(invocations[1].error)
    /\ invocations[2].ok

\* The response in hand decodes: its body is JSON and the text the adapter
\* extracts is a string or an empty value.
ResponseDecodes ==
    /\ response.json_ok
    /\ ~CheckEmpty(parse_model_response(response.value, model_config),
                   model_config).raised

\* C2 as stated: a profile-required error for the requested provider and a
\* response from the fallback provider give success=true with
\* details.model_used the fallback provider's id.
C2_AsStated ==
    pc = "done" /\ FallbackReturned
        => result.success /\ result.details.model_used = <<W(Haiku3)>>

\* C2, amended: after a profile-required error for the requested provider
\* and a response from the fallback provider that decodes, the result has
\* success=true and details.model_used is the fallback provider's id (and
\* not the requested provider's, when the two differ); when the fallback's
\* response does not decode, the result is the Mock Responder's, marked
\* MOCK_FALLBACK.
C2_FallbackDecoded ==
    pc = "done" /\ FallbackReturned
        => IF ResponseDecodes
           THEN /\ result.success
                /\ result.details.model_used = <<W(Haiku3)>>
                /\ invocations[1].modelId # Haiku3
                     => result.details.model_used # <<W(invocations[1].modelId)>>
           ELSE /\ result.success
                /\ MockOrigin(result)
                /\ result.details.model_used \notin ProviderIds

C2_Witness ==
    /\ pc = "done"
    /\ FallbackReturned
    /\ invocations[1].modelId = Scout
    /\ result.details.model_used = <<W(Haiku3)>>

\* The first invocation raised an access-denied error.
FirstAccessDenied ==
    /\ Len(invocations) >= 1
    /\ AccessDeniedError(invocations[1].error)

\* C3 as stated: an access-denied error is surfaced at once as a
\* success=false result carrying the error, with no retry and no fallback.
C3_AsStated ==
    pc = "done" /\ FirstAccessDenied
        => /\ Len(invocations) = 1
           /\ result.success = FALSE
           /\ result.details.error = invocations[1].error

\* C3, amended: after an access-denied error for the requested provider
\* process_audit makes no further invocation (no retry, no fallback
\* provider); the error goes straight to the handler, and the result is the
\* Mock Responder's report with success=true, details.error carrying the
\* error and details.model_used marking the mock origin.
C3_AccessDeniedToMock ==
    /\ FirstAccessDenied => Len(invocations) = 1 /\ pc \in {"mock", "done"}
    /\ pc = "done" /\ FirstAccessDenied
         => /\ result.success
            /\ MockReport(result)
            /\ MockOrigin(result)
            /\ result.details.error = invocations[1].error

\* An access-denied error whose message mentions an inference profile.
C3_Witness ==
    /\ pc = "done"
    /\ FirstAccessDenied
    /\ "inference profile" \in invocations[1].error.marks
    /\ result.details.error = invocations[1].error

\* Some invocation of the call raised an access-denied error.
AnyAccessDenied ==
    \E i \in 1..Len(invocations) : AccessDeniedError(invocations[i].error)

\* C4: when the Inference Client raises an access-denied error, the result
\* is either success=false carrying an error or a success=true mock result
\* whose details.model_used marks a mock origin; details.model_used is never
\* the id of a real provider.
C4_NeverRealProvider ==
    pc = "done" /\ AnyAccessDenied
        => /\ \/ result.success = FALSE /\ "error" \in DOMAIN result.details
              \/ result.success /\ MockReport(result) /\ MockOrigin(result)
           /\ "model_used" \in DOMAIN result.details
                => result.details.model_used \notin ProviderIds

\* The access-denied error came from the fallback provider.
C4_Witness ==
    /\ pc = "done"
    /\ Len(invocations) = 2
    /\ AccessDeniedError(invocations[2].error)
    /\ MockOrigin(result)

\* The first invocation raised an error of neither class.
FirstOtherError ==
    /\ Len(invocations) >= 1
    /\ ~invocations[1].ok
    /\ OtherError(invocations[1].error)

\* C5: when the first invocation fails with an error that is neither
\* profile-required nor access-denied, there is no second invocation, the
\* Mock Responder takes over, and the result has success=true.
C5_OtherErrorToMock ==
    /\ FirstOtherError => Len(invocations) = 1 /\ pc \in {"mock", "done"}
    /\ pc = "done" /\ FirstOtherError
         => result.success /\ MockReport(result) /\ MockOrigin(result)

\* A ValidationException that is not about an inference profile.
C5_Witness ==
    /\ pc = "done"
    /\ FirstOtherError
    /\ invocations[1].error.marks = {"ValidationException"}
    /\ result.success

\* C6: a call makes at most two invocations; the second is made only after
\* the first failed with a profile-required error, it is then made exactly
\* once, it targets the fixed fallback provider, and nothing is invoked
\* after it whatever it returns.
C6_AtMostTwoInvocations ==
    /\ Len(invocations) <= 2
    /\ Len(invocations) = 2
         => /\ ~invocations[1].ok
            /\ ProfileRequiredError(invocations[1].error)
            /\ invocations[2].modelId = Haiku3
    /\ (Len(invocations) >= 1 /\ ProfileRequiredError(invocations[1].error)
           /\ pc \in {"decode", "score", "mock", "done"})
         => Len(invocations) = 2

\* The fallback invocation failed too, and the call returned without a third.
C6_Witness ==
    /\ pc = "done"
    /\ Len(invocations) = 2
    /\ ~invocations[2].ok
    /\ invocations[2].modelId = Haiku3

Whitespace == {W(" "), NL, W("\t")}

\* The last invocation returned, and the text decoded from its response is
\* empty or whitespace-only.
BlankDecoded(decoded) ==
    /\ decoded.t = "text"
    /\ \A i \in 1..Len(decoded.v) : decoded.v[i] \in Whitespace

EmptyResponse ==
    /\ Len(invocations) >= 1
    /\ invocations[Len(invocations)].ok
    /\ response.json_ok
    /\ BlankDecoded(parse_model_response(response.value, model_config))

\* The substituted message, naming provider id.
CouldNotGenerate(id) ==
    <<W("The audit system using "), W(SUPPORTED_MODELS[id].name),
      W(" could not generate an analysis at this time. Please try again later or contact system administration.")>>

\* C7: when an invocation returns and the decoded text is empty or
\* whitespace-only, the analysis text is the fixed "could not generate an
\* analysis" message naming the provider that was invoked, success=true,
\* details.model_used is that provider, and the Mock Responder has no part
\* in the result.
C7_EmptyResponseSubstituted ==
    pc = "done" /\ EmptyResponse
        => /\ result.audit_result = CouldNotGenerate(invocations[Len(invocations)].modelId)
           /\ result.success
           /\ result.details.model_used = <<W(invocations[Len(invocations)].modelId)>>
           /\ ~MockOrigin(result)
           /\ ~MockReport(result)

\* A whitespace-only text was decoded.
C7_Witness ==
    /\ pc = "done"
    /\ EmptyResponse
    /\ parse_model_response(response.value, model_config) = PText(BlankText)
    /\ result.success

\* C8: success=true exactly when an analysis text was produced: by a real
\* provider (decoded or substituted) or by the Mock Responder; success=false
\* only when no provider was invoked with an outcome in text and the Mock
\* Responder produced no report either.
C8_SuccessIffText ==
    pc = "done"
        => /\ result.success <=> (audit_response # <<>> \/ MockReport(result))
           /\ audit_response # <<>> => result.audit_result = audit_response
           /\ ~result.success
                => /\ invocations = <<>>
                   /\ format_claim_data_for_llm(claim_data).raised
                   /\ result.audit_result = MockUnavailable

\* The mock's report, produced without any invocation (no client).
C8_Witness ==
    /\ pc = "done"
    /\ invocations = <<>>
    /\ exc.cls = "BotoCoreError"
    /\ MockReport(result)
    /\ result.success

\* C9: every success=false result has a non-empty analysis text, and its
\* details state the requested provider (or "default" when none was
\* requested) and the mock origin used.
C9_FailureExplained ==
    pc = "done" /\ ~result.success
        => /\ Len(result.audit_result) > 0
           /\ "requested_model" \in DOMAIN result.details
           /\ result.details.requested_model
                = <<W(IF model_id \in {None, ""} THEN "default" ELSE model_id)>>
           /\ MockOrigin(result)

\* A failure for a call that named a provider.
C9_Witness ==
    /\ pc = "done"
    /\ ~result.success
    /\ model_id = Scout
    /\ result.details.requested_model = <<W(Scout)>>

\* model_config is the catalog entry of id, tagged with id.
IsEntryOf(config, id) ==
    /\ id \in DOMAIN SUPPORTED_MODELS
    /\ config.model_id = id
    /\ DOMAIN config = DOMAIN SUPPORTED_MODELS[id] \cup {"model_id"}
    /\ \A k \in DOMAIN SUPPORTED_MODELS[id] : config[k] = SUPPORTED_MODELS[id][k]

\* C10 as stated: an identifier of the catalog gives its entry, any other
\* (absent or unknown) gives the entry of the default provider.
C10_AsStated ==
    pc = "client"
        => IF model_id \in DOMAIN SUPPORTED_MODELS
           THEN IsEntryOf(model_config, model_id)
           ELSE IsEntryOf(model_config, DEFAULT_MODEL)

\* C10, amended: an identifier of the catalog gives its entry tagged with
\* it; an absent identifier (None or empty) gives the entry named by the
\* AUDIT_MODEL environment variable when that names a catalog entry, and
\* the default provider's otherwise; an identifier that is not in the
\* catalog gives the default provider's entry; the returned model_id is
\* always a key of the catalog.
C10_LookupResolves ==
    pc = "client"
        => /\ model_config.model_id \in DOMAIN SUPPORTED_MODELS
           /\ IF model_id \in DOMAIN SUPPORTED_MODELS
              THEN IsEntryOf(model_config, model_id)
              ELSE IF model_id \in {None, ""} /\ environ \in DOMAIN SUPPORTED_MODELS
              THEN IsEntryOf(model_config, environ)
              ELSE IsEntryOf(model_config, DEFAULT_MODEL)

\* No identifier was given and AUDIT_MODEL names another catalog entry.
C10_Witness ==
    /\ pc = "client"
    /\ model_id = None
    /\ environ = Maverick
    /\ model_config.model_id = Maverick

(***************************************************************************)
(* Properties of the adapters                                              *)
(***************************************************************************)
MessageList(body, prompt, config) ==
    /\ DOMAIN body = {"anthropic_version", "max_tokens", "temperature", "messages"}
    /\ body.messages = <<[role |-> "user", content |-> prompt]>>
    /\ body.max_tokens = config.max_tokens

\* C11: create_request_body chooses the dialect by the shape tag alone:
\* "claude" gives the message-list payload, "llama" the raw prompt with
\* max_gen_len, "mistral" the raw prompt with max_tokens, any other tag the
\* message-list payload; every payload carries the prompt unchanged and its
\* limit is the configuration's max_tokens.
C11_DialectByTag ==
    probe.op = "create_request_body"
        => CASE probe.config.type = "llama" ->
                  /\ DOMAIN probe.out = {"prompt", "max_gen_len", "temperature", "top_p"}
                  /\ probe.out.prompt = probe.prompt
                  /\ probe.out.max_gen_len = probe.config.max_tokens
             [] probe.config.type = "mistral" ->
                  /\ DOMAIN probe.out = {"prompt", "max_tokens", "temperature",
                                         "top_p", "top_k"}
                  /\ probe.out.prompt = probe.prompt
                  /\ probe.out.max_tokens = probe.config.max_tokens
             [] OTHER -> MessageList(probe.out, probe.prompt, probe.config)

\* A tag the adapter does not know gets the message-list payload.
C11_Witness ==
    /\ probe.op = "create_request_body"
    /\ probe.config.type = "titan"
    /\ Len(probe.prompt) > 0
    /\ MessageList(probe.out, probe.prompt, probe.config)

\* C12 as stated: for every response body and every shape tag
\* parse_model_response returns a string, and the empty string when the
\* body is no object or lacks the dialect's field.
C12_AsStated ==
    probe.op = "parse_model_response"
        => /\ probe.out.t = "text"
           /\ probe.response_body.t # "dict" => probe.out = EmptyStr
           /\ probe.response_body = PDict(<<>>) => probe.out = EmptyStr

(***************************************************************************)
(* Properties of the formatter                                             *)
(***************************************************************************)
\* piece occurs in text as a run of consecutive tokens.
Contains(text, piece) ==
    \E i \in 1..(Len(text) - Len(piece) + 1) :
        SubSeq(text, i, i + Len(piece) - 1) = piece

\* The positions of token tok in text, in increasing order.
PositionsOf(tok, text) ==
    SelectSeq([i \in 1..Len(text) |-> i], LAMBDA i : text[i] = tok)

\* The text has one line per item, in the order of items: the k-th line that
\* opens with "- CPT Code: " names the code of the k-th item, holds its
\* description, and the lines after "Services Billed:" are as many as the items.
OneLinePerItem(text, items) ==
    /\ Len(PositionsOf(W("- CPT Code: "), text)) = Len(items)
    /\ \A k \in 1..Len(items) :
          SubSeq(text, PositionsOf(W("- CPT Code: "), text)[k],
                       PositionsOf(W("- CPT Code: "), text)[k] + 3)
            = <<W("- CPT Code: "), W(items[k].v.cpt_code.v),
                W(", Description: "), W(items[k].v.description.v)>>
    /\ Len(PositionsOf(W("Services Billed:"), text)) = 1
    /\ Len(SelectSeq(SubSeq(text, PositionsOf(W("Services Billed:"), text)[1] + 2,
                            Len(text)),
                     LAMBDA tok : tok = NL)) = Len(items)

\* C13: for every well-formed claim record the formatter's text contains
\* the claim id and the status, and exactly one line per line item, in the
\* order of the record's items.
C13_IdStatusItemLines ==
    probe.op = "format_claim_data_for_llm" /\ probe.claim \in FormatRecords
        => /\ ~probe.out.raised
           /\ Contains(probe.out.text,
                       <<W("Claim ID: "), IntTok(probe.claim.v.claim_id.v), NL>>)
           /\ Contains(probe.out.text,
                       <<W("Claim Status: "), W(probe.claim.v.status.v), NL>>)
           /\ OneLinePerItem(probe.out.text, probe.claim.v.items.v)

\* Two different items, the second one first in the catalog of services.
C13_Witness ==
    /\ probe.op = "format_claim_data_for_llm"
    /\ probe.claim \in FormatRecords
    /\ probe.claim.v.items.v = <<Item80053, Item99213>>
    /\ OneLinePerItem(probe.out.text, <<Item80053, Item99213>>)

\* C14 as stated: for any input the formatter returns a text and propagates
\* no error.
C14_AsStated ==
    probe.op = "format_claim_data_for_llm" => ~probe.out.raised

(***************************************************************************)
(* Properties of the scorer                                                *)
(***************************************************************************)
Scored == probe.op = "calculate_fraud_score"

\* C15: calculate_fraud_score returns a value between 0 and 100 (0 .. 10000
\* hundredths) for every pair of texts, the empty strings included, and
\* returns 0.0 when a step inside it fails (the import of the vectorizer).
C15_ScoreInRange ==
    Scored => /\ probe.out \in 0..10000
              /\ ~sklearn => probe.out = 0

\* The scorer has answered 0.0 for two empty strings after it answered more
\* than 10 points for another pair.
C15_Witness ==
    /\ Scored
    /\ sklearn
    /\ probe.claim_data = <<>> /\ probe.audit_result = <<>>
    /\ probe.out = 0
    /\ probe.earlier # NoProbe
    /\ probe.earlier.out > 1000

\* The call repeats the arguments of the first scorer call.
Repeated ==
    /\ Scored
    /\ probe.earlier # NoProbe
    /\ probe.claim_data = probe.earlier.claim_data
    /\ probe.audit_result = probe.earlier.audit_result

DifferInTotalOnly(r1, r2) ==
    /\ r1 # r2
    /\ r2.v = [r1.v EXCEPT !["total_charge"] = r2.v["total_charge"]]

\* No risk indicator occurs in the text the scorer combines from its arguments.
NoRiskTerms(claim_text, audit_text) ==
    RiskCounts(TextWords(Lower(claim_text) \o <<W(" ")>> \o Lower(audit_text), 1)) = 0

\* The scorer was called on the text of row r1, and r2 is a row that differs
\* from r1 in total_charge only, neither text holding a risk indicator.
ScoredNextTo(r1, r2) ==
    /\ Scored
    /\ probe.claim_data = FormattedText(r1)
    /\ DifferInTotalOnly(r1, r2)
    /\ NoRiskTerms(FormattedText(r1), probe.audit_result)
    /\ NoRiskTerms(FormattedText(r2), probe.audit_result)

\* The score of row r with the analysis text of the call in the probe.
ScoreBeside(r) == calculate_fraud_score(FormattedText(r), probe.audit_result, sklearn)

MockCalled == probe.op = "generate_mock_audit_response"

\* C18: generate_mock_audit_response makes no call of the Inference Client
\* and returns a result; the result has success = true for every claim and
\* requested model id unless an error occurred inside it (the formatter
\* raised), and then success = false with the fixed unavailability message.
C18_MockSucceeds ==
    MockCalled =>
        /\ invocations = <<>>
        /\ ~probe.out.raised
        /\ probe.out.value.success <=> ~format_claim_data_for_llm(probe.claim).raised
        /\ ~probe.out.value.success => probe.out.value.audit_result = MockUnavailable

\* The Mock Responder has answered success = true for a claim row with line
\* items and a requested model id of the catalogue.
C18_Witness ==
    /\ MockCalled
    /\ probe.claim \in WellFormedClaims
    /\ probe.claim.v["items"].v # <<>>
    /\ probe.requested_model = Scout
    /\ probe.out.value.success
    /\ invocations = <<>>

(***************************************************************************)
(* Properties of audit_claim                                               *)
(***************************************************************************)
\* C19: audit_claim writes a fraud score onto the stored claim only after an
\* audit that returned success = true with a fraud score, the value written
\* is exactly that score and only the audited claim is written; after an
\* audit with success = false the stored claims stay as they were.
C19_WriteOnlyOnSuccess ==
    [][database' # database =>
          /\ pc = "done"
          /\ request.at = "auditing"
          /\ result.success
          /\ "fraud_score" \in DOMAIN result.details
          /\ database' = [database EXCEPT
                             ![request.claim_id] = <<result.details.fraud_score>>]]_vars

\* audit_claim has answered for claim 9 with an audit that succeeded, and the
\* stored claim carries the score of the answer, claim 10 still none.
C19_Witness ==
    /\ request.at = "responded"
    /\ request.status_code = 200
    /\ request.claim_id = 9
    /\ request.body.success
    /\ request.body.details.fraud_score > 0
    /\ database[9] = <<request.body.details.fraud_score>>
    /\ database[10] = <<>>

(***************************************************************************)
(* Properties of two calls in flight                                       *)
(***************************************************************************)
\* What the Inference Client answered to a call, invocation by invocation.
Outcomes(log) == [i \in DOMAIN log |-> [ok |-> log[i].ok, error |-> log[i].error]]

\* The client could not be created for the call.
NoClient(e, log) == e = Exc("BotoCoreError") /\ log = <<>>

\* Both calls have returned; they had the same arguments and met the same
\* outcomes of the Inference Client.
BothDoneAlike ==
    /\ pc = "done"
    /\ suspended.pc = "done"
    /\ claim_data = suspended.claim_data
    /\ model_id = suspended.model_id
    /\ Outcomes(invocations) = Outcomes(suspended.invocations)
    /\ response = suspended.response
    /\ NoClient(exc, invocations) <=> NoClient(suspended.exc, suspended.invocations)

\* The step resumes the other call: the two frames change places.
Resumed ==
    /\ pc' = suspended.pc
    /\ result' = suspended.result
    /\ suspended'.pc = pc
    /\ suspended'.result = result

\* C20: calls of process_audit are independent. Two calls with the same
\* arguments and the same outcomes of the Inference Client return the same
\* result, whether a call ran interleaved with another call or alone; and a
\* step of one call leaves every local of the other call as it was.
C20_CallsIndependent ==
    /\ [](BothDoneAlike => result = suspended.result)
    /\ [][\/ Resumed
          \/ [suspended EXCEPT !.mixed = FALSE]
             = [suspended' EXCEPT !.mixed = FALSE]]_vars

\* A call that ran interleaved with another call and a call that ran alone,
\* both through the fallback hop, have returned the same successful result.
C20_Witness ==
    /\ BothDoneAlike
    /\ suspended.mixed
    /\ ~overlapped
    /\ Len(invocations) = 2
    /\ result.success
    /\ result = suspended.result

(***************************************************************************)
(* Properties of the catalog                                               *)
(***************************************************************************)
\* C21: the provider catalog and the default provider id are never mutated:
\* after any sequence of get_model_config, process_audit and
\* generate_mock_audit_response calls, fallback hops and callers that add a
\* field to the configuration they were handed included, SUPPORTED_MODELS
\* and DEFAULT_MODEL are what they were when the process started.
C21_CatalogNeverMutated == registry = AtStart

\* A caller has added a field to a configuration it was handed, and a later
\* process_audit call has returned after its fallback hop.
C21_Witness ==
    /\ probe.op = "get_model_config"
    /\ "is_default" \in DOMAIN probe.out
    /\ pc = "done"
    /\ Len(invocations) = 2
    /\ result.success
    /\ registry = AtStart

\* C22: every catalog entry carries a shape tag that create_request_body and
\* parse_model_response each serve by a branch of its own, not by the else
\* branch, and the default provider id and the fallback hop's provider id are
\* keys of the catalog.
C22_CatalogWellFormed ==
    /\ \A key \in DOMAIN registry.SUPPORTED_MODELS :
          /\ RequestBranch(registry.SUPPORTED_MODELS[key].type) # "else"
          /\ ResponseBranch(registry.SUPPORTED_MODELS[key].type) # "else"
          /\ RequestBranch(registry.SUPPORTED_MODELS[key].type)
               = ResponseBranch(registry.SUPPORTED_MODELS[key].type)
    /\ registry.DEFAULT_MODEL \in DOMAIN registry.SUPPORTED_MODELS
    /\ FALLBACK_MODEL \in DOMAIN registry.SUPPORTED_MODELS

\* The fallback hop has resolved its literal to the entry stored under it,
\* after lookups of the default and of a named entry.
C22_Witness ==
    /\ pc = "decode"
    /\ Len(invocations) = 2
    /\ actual_model_id = FALLBACK_MODEL
    /\ model_config = ConfigOf(FALLBACK_MODEL)
    /\ probe.op = "get_model_config"
    /\ probe.out.model_id = DEFAULT_MODEL

(***************************************************************************)
(* Properties of the lexical component                                     *)
(***************************************************************************)
\* The words of combined_text for the call in the probe.
CombinedWords ==
    TextWords(Lower(probe.claim_data) \o <<W(" ")>> \o Lower(probe.audit_result), 1)

\* How many times the indicator stands in the words: as a word, inside a
\* longer word, or (the two-word indicator) as two words in a row.
TimesIn(indicator, words) ==
    IF indicator = "no documentation"
    THEN Cardinality({i \in 1..(Len(words) - 1) :
                        words[i] = Word("no") /\ words[i + 1] = Word("documentation")})
    ELSE Cardinality({i \in 1..Len(words) :
                        \/ words[i] = Word(indicator)
                        \/ /\ words[i].k = "w"
                           /\ words[i].s \in {"unusually", "duplicates", "fraudulent"}
                           /\ indicator \in Derived[words[i].s]})

RECURSIVE AllTimes(_, _)
\* The occurrences of the indicators from the i-th on, added up.
AllTimes(words, i) ==
    IF i > Len(risk_indicators) THEN 0
    ELSE TimesIn(risk_indicators[i], words) + AllTimes(words, i + 1)

\* The indicators that stand in the words at least once.
TermsIn(words) ==
    {i \in 1..Len(risk_indicators) : TimesIn(risk_indicators[i], words) > 0}

\* The score for a count of indicators: 0.5 * min(count / 13, 1) added to the
\* similarity component, clamped and rounded (in hundredths of a point).
ScoreForCount(count, words) ==
    Round2(Min(Max(Min(count * 300000, Len(risk_indicators) * 300000)
                   + AvgSimilarity(<<ExampleWords(1), ExampleWords(2),
                                     ExampleWords(3), words>>),
                   0), 7800000))

Prepared ==
    /\ model_config # Unset
    /\ actual_model_id # None
    /\ formatted_claim_data # <<>>
    /\ audit_prompt # <<>>

\* The first invocation is followed by the decoding of its response, by the
\* fallback invocation or by the Mock Responder.
AfterInvoking == pc = "invoke" => pc' \in {"decode", "fallback", "mock"}

HasScore == "fraud_score" \in DOMAIN result.details

CancelledInFlight == cancelled

\* C25 as stated: when an audit call is cancelled while the Inference Client
\* invocation is in flight, the invocation is aborted (its response is not
\* used) and the audit resolves through the Mock Responder; the cancelled
\* audit is not left without a result.
C25_AsStated ==
    /\ CancelledInFlight => pc \notin {"decode", "score"}
    /\ (CancelledInFlight /\ pc = "done") => MockOrigin(result)
    /\ (probe.op = "process_audit") => ~probe.out.raised

(***************************************************************************)
(* Properties of the provider a result names                               *)
(***************************************************************************)
\* The call is done with a result that a real provider's response gave.
RealResult == pc = "done" /\ result.success /\ ~MockOrigin(result)

\* The result names catalog entry key in all three fields.
NamesEntry(key) ==
    /\ key \in DOMAIN SUPPORTED_MODELS
    /\ result.details.model_used = <<W(key)>>
    /\ result.details.model_name = <<W(SUPPORTED_MODELS[key].name)>>
    /\ result.details.model_provider = <<W(SUPPORTED_MODELS[key].provider)>>

\* The analysis text is the response in hand read in the dialect of entry key.
DecodedAs(key) ==
    /\ response.json_ok
    /\ ~CheckEmpty(parse_model_response(response.value, ConfigOf(key)),
                   ConfigOf(key)).raised
    /\ result.audit_result
         = CheckEmpty(parse_model_response(response.value, ConfigOf(key)),
                      ConfigOf(key)).text

\* C26: in every result that process_audit produces from a real provider,
\* details.model_used, details.model_name and details.model_provider belong
\* to one catalog entry, that entry is the provider whose invocation
\* succeeded last (the fallback after a fallback hop), and the response was
\* decoded with that entry's dialect.
C26_ResultNamesLastProvider ==
    RealResult
        => /\ invocations # <<>>
           /\ invocations[Len(invocations)].ok
           /\ NamesEntry(invocations[Len(invocations)].modelId)
           /\ DecodedAs(invocations[Len(invocations)].modelId)

\* A request for a llama provider ended, after the fallback hop, with the
\* fallback's response read in the fallback's dialect.
C26_Witness ==
    /\ RealResult
    /\ Len(invocations) = 2
    /\ invocations[1].modelId = Scout
    /\ NamesEntry(Haiku3)
    /\ response.value = ClaudeBody(PText(RiskyText))
    /\ result.audit_result = RiskyText

(***************************************************************************)
(* Properties of a fallback hop that fails                                 *)
(***************************************************************************)
\* The first invocation raised a profile-required error and the fallback
\* invocation raised as well.
BothFailed ==
    /\ Len(invocations) >= 2
    /\ ProfileRequiredError(invocations[1].error)
    /\ ~invocations[2].ok

\* C27: when the first invocation fails with a profile-required error and
\* the fallback invocation fails too, with whatever error, process_audit
\* makes no third invocation and resolves through the Mock Responder with
\* success=true, and details.error is the error of the first invocation, not
\* the fallback's.
C27_FirstErrorReported ==
    BothFailed
        => /\ Len(invocations) = 2
           /\ pc \in {"mock", "done"}
           /\ pc = "done"
                => /\ result.success
                   /\ MockOrigin(result)
                   /\ result.details.error = invocations[1].error
                   /\ invocations[2].error # invocations[1].error
                        => result.details.error # invocations[2].error

\* The fallback was refused access after the requested provider asked for
\* an inference profile, and the call is done.
C27_Witness ==
    /\ pc = "done"
    /\ BothFailed
    /\ AccessDeniedError(invocations[2].error)
    /\ result.success
    /\ result.details.error = invocations[1].error

(***************************************************************************)
(* Properties of audit_claim for an unknown claim                          *)
(***************************************************************************)
\* The request for a claim_id that no row carries has been answered.
UnknownAnswered ==
    /\ request.at = "responded"
    /\ request.claim_id \notin DOMAIN ClaimRows

\* C28 as stated: audit_claim for a claim id that does not exist responds
\* with HTTP 404 'Claim not found', makes no Inference Client invocation and
\* writes nothing to the claims table.
C28_AsStated ==
    UnknownAnswered
        => /\ request.status_code = 404
           /\ pc = "idle"
           /\ invocations = <<>>
           /\ database = [claim_id \in DOMAIN ClaimRows |-> <<>>]

(***************************************************************************)
(* Properties of the shared connection                                     *)
(***************************************************************************)
\* C29 as stated: after create_claim or delete_claim completes, succeeded or
\* failed, the shared connection of get_connection is still usable: every
\* later db.query in the process succeeds and sees the rows committed so far.
C29_AsStated ==
    /\ probe.op \in {"create_claim", "delete_claim"} => store.conn = "open"
    /\ probe.op = "db.query"
         => /\ ~probe.out.raised
            /\ probe.out.value
                 = IF probe.arg \in DOMAIN probe.rows
                   THEN <<probe.rows[probe.arg]>> ELSE <<>>

(***************************************************************************)
(* Properties of the payment totals                                        *)
(***************************************************************************)
RECURSIVE PaidBy(_, _, _, _)
\* The amounts of the stored payments of a claim from one source, over the
\* payment ids up to id.
PaidBy(payments, claim_id, payment_source, id) ==
    IF id = 0 THEN 0
    ELSE PaidBy(payments, claim_id, payment_source, id - 1)
         + (IF /\ id \in DOMAIN payments
               /\ payments[id].claim_id = claim_id
               /\ payments[id].payment_source = payment_source
            THEN payments[id].amount ELSE 0)

\* C30 as stated: from the seeded database, after any sequence of
\* create_payment, update_payment and delete_payment, every claim's
\* insurance_paid is the sum of its stored 'Insurance' payments and its
\* patient_paid the sum of its stored 'Patient' payments.
C30_AsStated ==
    \A claim_id \in DOMAIN store.claims :
        /\ store.claims[claim_id].insurance_paid
             = PaidBy(store.payments, claim_id, "Insurance", Cardinality(PaymentIds))
        /\ store.claims[claim_id].patient_paid
             = PaidBy(store.payments, claim_id, "Patient", Cardinality(PaymentIds))

=============================================================================
